---------------------------- MODULE Spec2Model ----------------------------
(***************************************************************************)
(* Model of pyapprox/control_variate_monte_carlo.py: sample allocation for *)
(* MLMC / MFMC / ACV estimators, rounding of allocations, and the sample   *)
(* generation schemes.                                                     *)
(*                                                                         *)
(* Floating point values are modelled by exact rationals <<n, d>> with     *)
(* d >= 0 in lowest terms.  d = 0 encodes the IEEE special values:         *)
(* <<1,0>> = +inf, <<-1,0>> = -inf, <<0,0>> = nan.  Arrays keep the        *)
(* source's 0-based indices: they are functions on 0..n-1.                 *)
(*                                                                         *)
(* A value that a function of the source binds to a local and then reads   *)
(* several times is passed as a parameter of a helper operator (named      *)
(* ...With, ...By, ...From), so that it is one value read several times.   *)
(***************************************************************************)
EXTENDS Integers, Sequences, FiniteSets, TLC

VARIABLES op, args, res

vars == <<op, args, res>>

-----------------------------------------------------------------------------
(* Bounds of the model *)

\* np.sqrt of a rational that is not a perfect square is truncated to a
\* multiple of 1/SqrtPrec
SqrtPrec == 1000

-----------------------------------------------------------------------------
(* Rational arithmetic standing for float64 *)

Abs(n) == IF n < 0 THEN -n ELSE n

Sign(n) == IF n < 0 THEN -1 ELSE IF n > 0 THEN 1 ELSE 0

RECURSIVE Gcd(_, _)
Gcd(a, b) == IF b = 0 THEN a ELSE Gcd(b, a % b)

\* n/d for d # 0 and g = gcd(|n|, |d|)
NormBy(n, d, g) ==
    IF d < 0 THEN <<(-n) \div g, (-d) \div g>> ELSE <<n \div g, d \div g>>

\* n/d in lowest terms with d >= 0; x/0 is +-inf by the sign of x, 0/0 is nan
Norm(n, d) ==
    IF d = 0 THEN <<Sign(n), 0>> ELSE NormBy(n, d, Gcd(Abs(n), Abs(d)))

R(n) == <<n, 1>>
Q(n, d) == Norm(n, d)
NaN == <<0, 0>>
PosInf == <<1, 0>>
NegInf == <<-1, 0>>

IsNaN(x) == x = NaN
IsFinite(x) == x[2] # 0
IsInt(x) == x[2] = 1

Neg(x) == <<-x[1], x[2]>>

\* x*y for finite x, y with g1 = gcd(|x[1]|, y[2]) and g2 = gcd(|y[1]|, x[2])
MulBy(x, y, g1, g2) ==
    <<(x[1] \div g1) * (y[1] \div g2), (x[2] \div g2) * (y[2] \div g1)>>

\* IEEE: inf*0 = nan, inf*x = +-inf
Mul(x, y) ==
    IF x[2] = 0 \/ y[2] = 0 THEN <<Sign(x[1] * y[1]), 0>>
    ELSE MulBy(x, y, Gcd(Abs(x[1]), y[2]), Gcd(Abs(y[1]), x[2]))

\* 1/x with IEEE results: 1/0 = inf, 1/inf = 0, 1/nan = nan
Inv(x) ==
    IF IsNaN(x) THEN NaN
    ELSE IF x[2] = 0 THEN R(0)
    ELSE IF x[1] = 0 THEN PosInf
    ELSE IF x[1] < 0 THEN <<-x[2], -x[1]>>
    ELSE <<x[2], x[1]>>

Div(x, y) ==
    IF IsFinite(x) /\ IsFinite(y) /\ y[1] = 0 THEN <<Sign(x[1]), 0>>
    ELSE IF ~IsFinite(x) /\ ~IsFinite(y) THEN NaN
    ELSE Mul(x, Inv(y))

\* x+y for finite x, y with g = gcd(x[2], y[2])
AddBy(x, y, g) ==
    Norm(x[1] * (y[2] \div g) + y[1] * (x[2] \div g), (x[2] \div g) * y[2])

Add(x, y) ==
    IF IsNaN(x) \/ IsNaN(y) THEN NaN
    ELSE IF x[2] = 0 /\ y[2] = 0 THEN (IF x = y THEN x ELSE NaN)
    ELSE IF x[2] = 0 THEN x
    ELSE IF y[2] = 0 THEN y
    ELSE AddBy(x, y, Gcd(x[2], y[2]))

Sub(x, y) == Add(x, Neg(y))

RECURSIVE LtPos(_, _, _, _)
\* a/b < c/d for a, c >= 0 and b, d > 0, by comparing continued fractions
LtPos(a, b, c, d) ==
    IF a \div b # c \div d THEN a \div b < c \div d
    ELSE IF c % d = 0 THEN FALSE
    ELSE IF a % b = 0 THEN TRUE
    ELSE LtPos(d, c % d, b, a % b)

\* x < y as floats compare: every comparison with nan is false
Lt(x, y) ==
    IF IsNaN(x) \/ IsNaN(y) THEN FALSE
    ELSE IF x[2] = 0 /\ y[2] = 0 THEN x[1] < y[1]
    ELSE IF x[2] = 0 THEN x[1] < 0
    ELSE IF y[2] = 0 THEN y[1] > 0
    ELSE IF x[1] < 0 /\ y[1] >= 0 THEN TRUE
    ELSE IF x[1] >= 0 /\ y[1] < 0 THEN FALSE
    ELSE IF x[1] < 0 THEN LtPos(-y[1], y[2], -x[1], x[2])
    ELSE LtPos(x[1], x[2], y[1], y[2])

Leq(x, y) == ~IsNaN(x) /\ ~IsNaN(y) /\ ~Lt(y, x)

\* Python's max(a, b): b replaces a only when b > a
PyMax(a, b) == IF Lt(a, b) THEN b ELSE a

MinR(a, b) == IF Lt(b, a) THEN b ELSE a

\* floor of a finite rational, as an integer
Floor(x) == x[1] \div x[2]

\* np.floor, the rounding of the variant left in comments at lines 58-59
RoundDown(x, f) == R(f)

\* x rounded half to even, for finite x with floor f
RoundFrom(x, f) ==
    IF 2 * (x[1] - f * x[2]) < x[2] THEN R(f)
    ELSE IF 2 * (x[1] - f * x[2]) > x[2] THEN R(f + 1)
    ELSE IF f % 2 = 0 THEN R(f) ELSE R(f + 1)

\* np.round: round half to even; inf and nan are returned unchanged
Round(x) == IF ~IsFinite(x) THEN x ELSE RoundFrom(x, Floor(x))

RECURSIVE ISqrtBin(_, _, _)
\* largest s in lo..hi with s*s <= n
ISqrtBin(n, lo, hi) ==
    IF lo >= hi THEN lo
    ELSE IF (lo + hi + 1) \div 2 <= n \div ((lo + hi + 1) \div 2)
         THEN ISqrtBin(n, (lo + hi + 1) \div 2, hi)
         ELSE ISqrtBin(n, lo, (lo + hi + 1) \div 2 - 1)

ISqrt(n) == IF n <= 0 THEN 0 ELSE ISqrtBin(n, 1, IF n < 46340 THEN n ELSE 46340)

RECURSIVE SqrtBin(_, _, _)
\* largest s in lo..hi with (s/SqrtPrec)^2 <= x, for finite x >= 0
SqrtBin(x, lo, hi) ==
    IF lo >= hi THEN lo
    ELSE IF LtPos(x[1], x[2],
                  ((lo + hi + 1) \div 2) * ((lo + hi + 1) \div 2),
                  SqrtPrec * SqrtPrec)
         THEN SqrtBin(x, lo, (lo + hi + 1) \div 2 - 1)
         ELSE SqrtBin(x, (lo + hi + 1) \div 2, hi)

\* sqrt(x) for x > 0 finite, given sn = isqrt(x[1]) and sd = isqrt(x[2])
SqrtFrom(x, sn, sd) ==
    IF sn * sn = x[1] /\ sd * sd = x[2] THEN <<sn, sd>>
    ELSE Norm(SqrtBin(x, 0, 46340), SqrtPrec)

\* np.sqrt: exact on perfect squares, otherwise truncated to a multiple of
\* 1/SqrtPrec; nan for a negative argument
Sqrt(x) ==
    IF IsNaN(x) THEN NaN
    ELSE IF x[2] = 0 THEN (IF x[1] > 0 THEN PosInf ELSE NaN)
    ELSE IF x[1] < 0 THEN NaN
    ELSE IF x[1] = 0 THEN R(0)
    ELSE SqrtFrom(x, ISqrt(x[1]), ISqrt(x[2]))

\* a Python list / numpy array literal with the source's 0-based indices
Arr(s) == [i \in 0..(Len(s) - 1) |-> s[i + 1]]

ALen(a) == Cardinality(DOMAIN a)

RECURSIVE Entries(_, _)
\* <<f[0], ..., f[n-1]>>
Entries(f, n) == IF n = 0 THEN <<>> ELSE Append(Entries(f, n - 1), f[n - 1])

\* the array with the entries of f: an array holds values, every entry is
\* computed once
Array(f) == Arr(Entries(f, ALen(f)))

\* x[1:]
Tail0(x) == Array([i \in 0..(ALen(x) - 2) |-> x[i + 1]])

RECURSIVE SumTo(_, _)
\* a[0] + ... + a[k]
SumTo(a, k) == IF k < 0 THEN R(0) ELSE Add(SumTo(a, k - 1), a[k])

\* a.sum()
Sum(a) == SumTo(a, ALen(a) - 1)

\* np.dot of two equally long vectors
Dot(a, b) == Sum(Array([i \in DOMAIN a |-> Mul(a[i], b[i])]))

-----------------------------------------------------------------------------
(* np.log10.  log10 is injective and increasing on the positive reals, so   *)
(* log10(v) is represented by the term [log10of |-> v]: sums of logarithms  *)
(* are products of their arguments.  log10 of a negative number is nan,     *)
(* log10(0) = -inf is the term with argument 0, log10(inf) = inf.           *)

Log10(x) == [log10of |-> IF IsNaN(x) \/ Lt(x, R(0)) THEN NaN ELSE x]

LogAdd(a, b) == [log10of |-> Mul(a.log10of, b.log10of)]

LogSub(a, b) == [log10of |-> Div(a.log10of, b.log10of)]

LogIsNaN(a) == IsNaN(a.log10of)

\* a < b for two logarithms
LogLt(a, b) == Lt(a.log10of, b.log10of)

\* 10**a
Pow10(a) == a.log10of

-----------------------------------------------------------------------------
(* standardize_sample_ratios *)

\* line 61: max(np.round(nn/nhf_samples),0)
RoundRatio(nn, nhf_samples) == PyMax(Round(Div(nn, nhf_samples)), R(0))

\* lines 57 and 61-62, with the new nhf_samples of line 60.
\* int() of an infinite float raises OverflowError.
StandardizeWith(nhf_samples, nsample_ratios, nhf_rounded) ==
    IF ~IsFinite(nhf_rounded)
    THEN [status |-> "error", msg |-> "OverflowError"]
    ELSE [status |-> "ok",
          nhf_samples |-> nhf_rounded,
          nsample_ratios |->
              Array([i \in DOMAIN nsample_ratios |->
                  RoundRatio(Mul(nsample_ratios[i], nhf_samples),
                             nhf_rounded)])]

\* standardize_sample_ratios, lines 57-62
StandardizeSampleRatios(nhf_samples, nsample_ratios) ==
    StandardizeWith(nhf_samples, nsample_ratios,
                    PyMax(R(1), Round(nhf_samples)))

-----------------------------------------------------------------------------
(* variance reduction formulas *)

\* variance of the discrepancy between models ii and ii+1
VarDelta(cov, ii) ==
    Sub(Add(cov[ii][ii], cov[ii + 1][ii + 1]), Mul(R(2), cov[ii][ii + 1]))

RECURSIVE Rhat(_, _)
\* lines 177-179: rhat[0] = 1, rhat[ii] = nsample_ratios[ii-1] - rhat[ii-1]
Rhat(nsample_ratios, ii) ==
    IF ii = 0 THEN R(1)
    ELSE Sub(nsample_ratios[ii - 1], Rhat(nsample_ratios, ii - 1))

\* lines 181-186: the numerator of the term of level ii
MlmcTermVariance(cov, ii) ==
    IF ii < ALen(cov) - 1 THEN VarDelta(cov, ii) ELSE cov[ii][ii]

\* get_rsquared_mlmc, lines 174-189
GetRsquaredMlmc(cov, nsample_ratios) ==
    Sub(R(1),
        Div(Sum(Array([ii \in DOMAIN cov |->
                    Div(MlmcTermVariance(cov, ii),
                        Rhat(nsample_ratios, ii))])),
            cov[0][0]))

\* the term of model ii+1 with the factor (r[ii]-1)/r[ii] of the first term
MfmcTermFromOne(cov, r, ii) ==
    Mul(Mul(Div(Sub(r[ii], R(1)), r[ii]),
            Div(cov[0][ii + 1], Mul(cov[0][0], cov[ii + 1][ii + 1]))),
        cov[0][ii + 1])

\* lines 143-147: the term of low-fidelity model ii+1, for ii >= 1
MfmcTerm(cov, r, ii) ==
    Mul(Mul(Div(Sub(r[ii], r[ii - 1]), Mul(r[ii], r[ii - 1])),
            Div(cov[0][ii + 1], Mul(cov[0][0], cov[ii + 1][ii + 1]))),
        cov[0][ii + 1])

\* lines 141-142: the term of low-fidelity model 1
MfmcFirstTerm(cov, r) ==
    Mul(Mul(Div(Sub(r[0], R(1)), r[0]),
            Div(cov[0][1], Mul(cov[0][0], cov[1][1]))),
        cov[0][1])

\* get_rsquared_mfmc, lines 139-148
GetRsquaredMfmc(cov, nsample_ratios) ==
    Sum(Array([ii \in DOMAIN nsample_ratios |->
            IF ii = 0 THEN MfmcFirstTerm(cov, nsample_ratios)
            ELSE MfmcTerm(cov, nsample_ratios, ii)]))

\* get_mfmc_control_variate_weights, lines 717-719
GetMfmcControlVariateWeights(cov) ==
    Array([i \in 0..(ALen(cov) - 2) |->
        Neg(Div(cov[0][i + 1], cov[i + 1][i + 1]))])

\* get_rsquared(cov, nsample_ratios) for the function get_rsquared names
ApplyGetRsquared(get_rsquared, cov, nsample_ratios) ==
    IF get_rsquared = "get_rsquared_mlmc"
    THEN GetRsquaredMlmc(cov, nsample_ratios)
    ELSE GetRsquaredMfmc(cov, nsample_ratios)

\* get_variance_reduction: 1 - get_rsquared(cov, nsample_ratios)
GetVarianceReduction(get_rsquared, cov, nsample_ratios) ==
    Sub(R(1), ApplyGetRsquared(get_rsquared, cov, nsample_ratios))

-----------------------------------------------------------------------------
(* allocate_samples_mlmc *)

\* lines 346-356: var_deltas[ii] / cost_deltas[ii] under the square root
MlmcNsamples(cov, costs) ==
    Array([ii \in DOMAIN cov |->
        IF ii < ALen(cov) - 1
        THEN Sqrt(Div(VarDelta(cov, ii), Add(costs[ii], costs[ii + 1])))
        ELSE Sqrt(Div(cov[ii][ii], costs[ii]))])

\* lines 346-356: sqrt(var_deltas[ii] * cost_deltas[ii])
MlmcSqrtVc(cov, costs) ==
    Array([ii \in DOMAIN cov |->
        IF ii < ALen(cov) - 1
        THEN Sqrt(Mul(VarDelta(cov, ii), Add(costs[ii], costs[ii + 1])))
        ELSE Sqrt(Mul(cov[ii][ii], costs[ii]))])

\* lines 358-364: sqrt_lamda = sum1/variance with variance = sum1**2/target_cost
MlmcSqrtLamda(sum1, target_cost) ==
    Div(sum1, Div(Mul(sum1, sum1), target_cost))

\* lines 365-369: nl[ii] = sqrt_lamda*nsamples[ii]
MlmcNlWith(nsamples, sqrt_lamda) ==
    Array([ii \in DOMAIN nsamples |-> Mul(sqrt_lamda, nsamples[ii])])

\* lines 343-369: the continuous number of samples nl[ii] for each discrepancy
MlmcNl(cov, costs, target_cost) ==
    MlmcNlWith(MlmcNsamples(cov, costs),
               MlmcSqrtLamda(Sum(MlmcSqrtVc(cov, costs)), target_cost))

\* the ratios as nl[j+1]/nl[0], the samples of one discrepancy only
MlmcRatiosPerLevel(nl) ==
    [nhf_samples |-> nl[0],
     nsample_ratios |-> Array([j \in 0..(ALen(nl) - 2) |->
                            Div(nl[j + 1], nl[0])])]

\* lines 374-381: nhf_samples and the ratios before rounding
MlmcRatios(nl) ==
    [nhf_samples |-> nl[0],
     nsample_ratios |-> Array([j \in 0..(ALen(nl) - 2) |->
                            Div(Add(nl[j], nl[j + 1]), nl[0])])]

MlmcContinuous(cov, costs, target_cost) ==
    MlmcRatios(MlmcNl(cov, costs, target_cost))

\* lines 383-386
MlmcStandardize(cont, standardize) ==
    IF standardize
    THEN StandardizeSampleRatios(PyMax(cont.nhf_samples, R(1)),
                                 cont.nsample_ratios)
    ELSE [status |-> "ok", nhf_samples |-> cont.nhf_samples,
          nsample_ratios |-> cont.nsample_ratios]

\* log10 of the variance of one sample: the term log10(nhf_samples) left out
Log10VarianceOfOneSample(gamma, cov, nhf_samples) ==
    LogAdd(Log10(gamma), Log10(cov[0][0]))

\* log10(gamma) + log10(cov[0,0]) - log10(nhf_samples)
Log10Variance(gamma, cov, nhf_samples) ==
    LogSub(LogAdd(Log10(gamma), Log10(cov[0][0])), Log10(nhf_samples))

\* the return without the test of np.isnan before it
MlmcReturnUnchecked(std, log10_variance) ==
    [status |-> "ok",
     nhf_samples |-> std.nhf_samples,
     nsample_ratios |-> std.nsample_ratios,
     log10_variance |-> log10_variance]

\* lines 390-393
MlmcReturn(std, log10_variance) ==
    IF LogIsNaN(log10_variance)
    THEN [status |-> "error", msg |-> "MLMC variance is NAN"]
    ELSE [status |-> "ok",
          nhf_samples |-> std.nhf_samples,
          nsample_ratios |-> std.nsample_ratios,
          log10_variance |-> log10_variance]

\* lines 387-393
MlmcFrom(cov, std) ==
    IF std.status = "error" THEN std
    ELSE MlmcReturn(std,
             Log10Variance(GetVarianceReduction("get_rsquared_mlmc", cov,
                                                std.nsample_ratios),
                           cov, std.nhf_samples))

\* allocate_samples_mlmc, lines 343-393
AllocateSamplesMlmc(cov, costs, target_cost, standardize) ==
    MlmcFrom(cov, MlmcStandardize(MlmcContinuous(cov, costs, target_cost),
                                  standardize))

-----------------------------------------------------------------------------
(* allocate_samples_mfmc *)

\* lines 27-29, with corr_sqrt = 1/sqrt(diag(cov))
CorrelationsWith(cov, corr_sqrt) ==
    Array([i \in DOMAIN cov |-> Array([j \in DOMAIN cov |->
        Mul(corr_sqrt[i], Mul(cov[i][j], corr_sqrt[j]))])])

\* compute_correlations_from_covariance, lines 27-29
ComputeCorrelationsFromCovariance(cov) ==
    CorrelationsWith(cov,
        Array([i \in DOMAIN cov |-> Div(R(1), Sqrt(cov[i][i]))]))

AbsR(x) == <<Abs(x[1]), x[2]>>

\* lines 272-273: argsort(|cov[0,1:]|)[::-1] is 0,1,...,nmodels-2 exactly when
\* the absolute covariances with model 0 are strictly decreasing
MfmcOrdered(cov) ==
    \A i \in 1..(ALen(cov) - 2) : Lt(AbsR(cov[0][i + 1]), AbsR(cov[0][i]))

Sq(x) == Mul(x, x)

\* lines 279-289: the list r of nmodels entries, from the correlations
MfmcRFrom(corr, costs) ==
    Array([ii \in DOMAIN costs |->
        IF ii < ALen(costs) - 1
        THEN Sqrt(Div(Mul(costs[0],
                          Sub(Sq(corr[0][ii]), Sq(corr[0][ii + 1]))),
                      Mul(costs[ii], Sub(R(1), Sq(corr[0][1])))))
        ELSE Sqrt(Div(Mul(costs[0], Sq(corr[0][ii])),
                      Mul(costs[ii], Sub(R(1), Sq(corr[0][1])))))])

MfmcR(cov, costs) == MfmcRFrom(ComputeCorrelationsFromCovariance(cov), costs)

\* lines 292-294: nhf_samples and the ratios before rounding
MfmcRatios(r, costs, target_cost) ==
    [nhf_samples |-> PyMax(Div(target_cost, Dot(costs, r)), R(1)),
     nsample_ratios |-> Tail0(r)]

MfmcContinuous(cov, costs, target_cost) ==
    MfmcRatios(MfmcR(cov, costs), costs, target_cost)

\* lines 296-298
MfmcStandardize(cont, standardize) ==
    IF standardize
    THEN StandardizeSampleRatios(cont.nhf_samples, cont.nsample_ratios)
    ELSE [status |-> "ok", nhf_samples |-> cont.nhf_samples,
          nsample_ratios |-> cont.nsample_ratios]

\* lines 300-304
MfmcFrom(cov, std) ==
    IF std.status = "error" THEN std
    ELSE [status |-> "ok",
          nhf_samples |-> std.nhf_samples,
          nsample_ratios |-> std.nsample_ratios,
          log10_variance |->
              Log10Variance(GetVarianceReduction("get_rsquared_mfmc", cov,
                                                 std.nsample_ratios),
                            cov, std.nhf_samples)]

\* allocate_samples_mfmc, lines 271-304
AllocateSamplesMfmc(cov, costs, target_cost, standardize) ==
    IF ~MfmcOrdered(cov)
    THEN [status |-> "error", msg |-> "Models must be ordered with decreasing correlation with high-fidelity model"]
    ELSE MfmcFrom(cov,
             MfmcStandardize(MfmcContinuous(cov, costs, target_cost),
                             standardize))

\* the cost of an allocation: costs[0]*Nhf + sum_i costs[i]*r[i]*Nhf
AllocationCost(costs, nhf_samples, nsample_ratios) ==
    Add(Mul(costs[0], nhf_samples),
        Sum(Array([i \in DOMAIN nsample_ratios |->
                Mul(Mul(costs[i + 1], nsample_ratios[i]), nhf_samples)])))

-----------------------------------------------------------------------------
(* Discrepancy covariances and the generic ACV variance reduction.         *)
(* Matrices of the discrepancies have nmodels-1 <= 2 rows in this model.   *)

\* x + 1e-20 in float64 is x itself for every x >= 1e-4; the ratios and the
\* products of ratios it is added to are >= 1
PlusEps(x) == x

\* (1 - rr)/rr
FactorMFNegated(rr) == Div(Sub(R(1), rr), rr)

\* (rr - 1)/rr
FactorMF(rr) == Div(Sub(rr, R(1)), rr)

\* get_discrepancy_covariances_MF, lines 475-484: the factor matrix F
FactorsMF(nsample_ratios) ==
    Array([ii \in DOMAIN nsample_ratios |->
        Array([jj \in DOMAIN nsample_ratios |->
            FactorMF(MinR(nsample_ratios[ii], nsample_ratios[jj]))])])

\* the factor of model ii alone
FactorISOfRow(rs, ii, jj) == Div(Sub(rs[ii], R(1)), rs[ii])

\* lines 441-443: the entry F[ii, jj] for ii < jj
FactorIS(rs, ii, jj) ==
    Div(Mul(Div(Sub(rs[ii], R(1)), rs[ii]), Sub(rs[jj], R(1))), rs[jj])

\* the factor matrix without line 444: the entries below the diagonal stay 0
FactorsISUpperOnly(nsample_ratios) ==
    Array([ii \in DOMAIN nsample_ratios |->
        Array([jj \in DOMAIN nsample_ratios |->
            IF ii = jj THEN FactorMF(nsample_ratios[ii])
            ELSE IF ii < jj THEN FactorIS(nsample_ratios, ii, jj)
            ELSE R(0)])])

\* get_discrepancy_covariances_IS, lines 437-444: the factor matrix F;
\* line 444 copies F[ii, jj] to F[jj, ii]
FactorsIS(nsample_ratios) ==
    Array([ii \in DOMAIN nsample_ratios |->
        Array([jj \in DOMAIN nsample_ratios |->
            IF ii = jj THEN FactorMF(nsample_ratios[ii])
            ELSE IF ii < jj THEN FactorIS(nsample_ratios, ii, jj)
            ELSE FactorIS(nsample_ratios, jj, ii)])])

\* lines 540-544: both ii and jj above K, with ri = min(rs[ii], rs[jj])
FactorKLAboveK(rs, L, ii, jj, ri) ==
    Add(Div(Mul(Sub(rs[ii], rs[L]), Sub(rs[jj], rs[L])),
            PlusEps(Mul(Mul(rs[ii], rs[jj]), rs[L]))),
        Div(Sub(ri, rs[L]), PlusEps(Mul(rs[ii], rs[jj]))))

\* the discrepancies taken as uncorrelated: zero off the diagonal
FactorKLUncoupled(rs, K, L, ii, jj) ==
    IF ii = jj THEN FactorMF(rs[ii]) ELSE R(0)

\* get_discrepancy_covariances_KL, lines 529-550: entry F[ii, jj] for ii <= jj
FactorKL(rs, K, L, ii, jj) ==
    IF ii = jj
    THEN IF ii <= K
         THEN Div(Sub(rs[ii], R(1)), PlusEps(rs[ii]))
         ELSE Div(Sub(rs[ii], rs[L]), Mul(rs[ii], rs[L]))
    ELSE IF ii <= K /\ jj <= K
         THEN FactorMF(MinR(rs[ii], rs[jj]))
    ELSE IF jj > K /\ ii > K
         THEN FactorKLAboveK(rs, L, ii, jj, MinR(rs[ii], rs[jj]))
    ELSE IF ii > L /\ ii <= K /\ jj > K
         THEN Div(Sub(rs[ii], rs[L]), PlusEps(Mul(rs[ii], rs[L])))
    ELSE IF jj > L /\ jj <= K /\ ii > K
         THEN Div(Sub(rs[jj], rs[L]), PlusEps(Mul(rs[jj], rs[L])))
    ELSE R(0)

\* line 550: F[jj, ii] = F[ii, jj]
FactorsKL(nsample_ratios, K, L) ==
    Array([ii \in DOMAIN nsample_ratios |->
        Array([jj \in DOMAIN nsample_ratios |->
            IF ii <= jj THEN FactorKL(nsample_ratios, K, L, ii, jj)
            ELSE FactorKL(nsample_ratios, K, L, jj, ii)])])

\* CF = cov[1:,1:] * F and cf = diag(F) * cov[1:,0]
DiscrepancyCovariances(cov, F) ==
    [CF |-> Array([ii \in DOMAIN F |-> Array([jj \in DOMAIN F |->
                Mul(cov[ii + 1][jj + 1], F[ii][jj])])]),
     cf |-> Array([ii \in DOMAIN F |-> Mul(F[ii][ii], cov[ii + 1][0])])]

GetDiscrepancyCovariancesIS(cov, nsample_ratios) ==
    DiscrepancyCovariances(cov, FactorsIS(nsample_ratios))

GetDiscrepancyCovariancesMF(cov, nsample_ratios) ==
    DiscrepancyCovariances(cov, FactorsMF(nsample_ratios))

GetDiscrepancyCovariancesKL(cov, nsample_ratios, K, L) ==
    DiscrepancyCovariances(cov, FactorsKL(nsample_ratios, K, L))

\* determinant of a 1x1 or 2x2 matrix
Det(M) ==
    IF ALen(M) = 1 THEN M[0][0]
    ELSE Sub(Mul(M[0][0], M[1][1]), Mul(M[0][1], M[1][0]))

\* the inverse of a 1x1 or 2x2 matrix M with determinant d # 0
InverseBy(M, d) ==
    IF ALen(M) = 1 THEN Arr(<<Arr(<<Div(R(1), d)>>)>>)
    ELSE Arr(<<Arr(<<Div(M[1][1], d), Div(Neg(M[0][1]), d)>>),
               Arr(<<Div(Neg(M[1][0]), d), Div(M[0][0], d)>>)>>)

\* torch.mv
Mv(M, v) == Array([i \in DOMAIN M |-> Dot(M[i], v)])

\* the except branch returning an r^2 of one half
RsquaredAcvByHalf(cov, nsample_ratios, CFcf, is_ndarray, d) ==
    IF d = R(0) \/ ~IsFinite(d)
    THEN IF is_ndarray
         THEN [status |-> "error", msg |-> "LinAlgError: Singular matrix"]
         ELSE [status |-> "ok", rsquared |-> Q(1, 2)]
    ELSE [status |-> "ok",
          rsquared |-> Div(Dot(CFcf.cf, Mv(InverseBy(CFcf.CF, d), CFcf.cf)),
                           cov[0][0])]

\* lines 608-617 for CF with determinant d: an exactly singular CF makes
\* np.linalg.solve and torch.inverse raise.  is_ndarray: type(cov)==np.ndarray
RsquaredAcvBy(cov, nsample_ratios, CFcf, is_ndarray, d) ==
    IF d = R(0) \/ ~IsFinite(d)
    THEN IF is_ndarray
         THEN [status |-> "error", msg |-> "LinAlgError: Singular matrix"]
         ELSE [status |-> "ok", rsquared |-> Mul(R(0), nsample_ratios[0])]
    ELSE [status |-> "ok",
          rsquared |-> Div(Dot(CFcf.cf, Mv(InverseBy(CFcf.CF, d), CFcf.cf)),
                           cov[0][0])]

\* get_rsquared_acv, lines 608-617
GetRsquaredAcv(cov, nsample_ratios, CFcf, is_ndarray) ==
    RsquaredAcvBy(cov, nsample_ratios, CFcf, is_ndarray, Det(CFcf.CF))

-----------------------------------------------------------------------------
(* Estimators: ACV2, ACV2KL, MFMC, MLMC (lines 1116-1180).  An estimator is *)
(* [kind, K, L]; K and L are the constructor's arguments of ACV2KL.        *)

ACV2 == [kind |-> "ACV2", K |-> 0, L |-> 0]
ACV2KL(K, L) == [kind |-> "ACV2KL", K |-> K, L |-> L]
MFMC == [kind |-> "MFMC", K |-> 0, L |-> 0]
MLMC == [kind |-> "MLMC", K |-> 0, L |-> 0]

\* get_rsquared of each class; ACV2KL stores self.K, self.L = K-1, L-1
EstimatorGetRsquared(estimator, cov, nsample_ratios) ==
    CASE estimator.kind = "ACV2" ->
            GetRsquaredAcv(cov, nsample_ratios,
                GetDiscrepancyCovariancesMF(cov, nsample_ratios),
                FALSE).rsquared
      [] estimator.kind = "ACV2KL" ->
            GetRsquaredAcv(cov, nsample_ratios,
                GetDiscrepancyCovariancesKL(cov, nsample_ratios,
                    estimator.K - 1, estimator.L - 1),
                FALSE).rsquared
      [] estimator.kind = "MFMC" -> GetRsquaredMfmc(cov, nsample_ratios)
      [] estimator.kind = "MLMC" -> GetRsquaredMlmc(cov, nsample_ratios)

\* ACV2.variance_reduction, lines 1136-1137
VarianceReduction(estimator, cov, nsample_ratios) ==
    Sub(R(1), EstimatorGetRsquared(estimator, cov, nsample_ratios))

\* acv_sample_allocation_objective_all, lines 833-842
AcvSampleAllocationObjectiveAll(estimator, cov, x) ==
    Log10(Div(Mul(VarianceReduction(estimator, cov, Tail0(x)), cov[0][0]),
              x[0]))

-----------------------------------------------------------------------------
(* The functions that take get_discrepancy_covariances as an argument,     *)
(* called with a numpy covariance.  The argument is the MF function or the *)
(* KL function with K and L bound by partial.                               *)

StrategyIS == [kind |-> "IS", K |-> 0, L |-> 0]
StrategyMF == [kind |-> "MF", K |-> 0, L |-> 0]
StrategyKL(K, L) == [kind |-> "KL", K |-> K, L |-> L]

\* CF,cf = get_discrepancy_covariances(cov,nsample_ratios)
ApplyGetDiscrepancyCovariances(get_discrepancy_covariances, cov, nsample_ratios) ==
    IF get_discrepancy_covariances.kind = "IS"
    THEN GetDiscrepancyCovariancesIS(cov, nsample_ratios)
    ELSE IF get_discrepancy_covariances.kind = "MF"
    THEN GetDiscrepancyCovariancesMF(cov, nsample_ratios)
    ELSE GetDiscrepancyCovariancesKL(cov, nsample_ratios,
             get_discrepancy_covariances.K, get_discrepancy_covariances.L)

\* line 580 for CF with determinant d: -np.linalg.solve(CF, cf)
WeightsBy(CFcf, d) ==
    IF d = R(0) \/ ~IsFinite(d)
    THEN [status |-> "error", msg |-> "LinAlgError: Singular matrix"]
    ELSE [status |-> "ok",
          weights |-> Array([i \in DOMAIN CFcf.cf |->
              Neg(Mv(InverseBy(CFcf.CF, d), CFcf.cf)[i])])]

\* lines 579-581
WeightsFrom(CFcf) == WeightsBy(CFcf, Det(CFcf.CF))

\* get_approximate_control_variate_weights, lines 556-581
GetApproximateControlVariateWeights(cov, nsample_ratios, get_discrepancy_covariances) ==
    WeightsFrom(ApplyGetDiscrepancyCovariances(get_discrepancy_covariances,
                                               cov, nsample_ratios))

\* get_rsquared_acv, lines 583-617, with cov a np.ndarray
GetRsquaredAcvNumpy(cov, nsample_ratios, get_discrepancy_covariances) ==
    GetRsquaredAcv(cov, nsample_ratios,
        ApplyGetDiscrepancyCovariances(get_discrepancy_covariances,
                                       cov, nsample_ratios),
        TRUE)

-----------------------------------------------------------------------------
(* The gradient of the objective (lines 844-853).  A torch scalar tracked   *)
(* by autograd is modelled by its value v and its derivative d along one    *)
(* direction of x; the gradient is read off one direction at a time.        *)

Dual(v, d) == [v |-> v, d |-> d]

\* a tensor that does not depend on x
Const(c) == Dual(c, R(0))

DAdd(a, b) == Dual(Add(a.v, b.v), Add(a.d, b.d))

DSub(a, b) == Dual(Sub(a.v, b.v), Sub(a.d, b.d))

DMul(a, b) == Dual(Mul(a.v, b.v), Add(Mul(a.d, b.v), Mul(a.v, b.d)))

DDiv(a, b) ==
    Dual(Div(a.v, b.v),
         Div(Sub(Mul(a.d, b.v), Mul(a.v, b.d)), Mul(b.v, b.v)))

\* the builtin min(a, b) is b if b < a else a: autograd follows the tensor
\* returned (tie = "first").  tie = "least" gives the derivative of the
\* minimum along the direction: of two equal values the one that decreases
\* faster
DMin(a, b, tie) ==
    IF Lt(b.v, a.v) THEN b
    ELSE IF Lt(a.v, b.v) THEN a
    ELSE IF tie = "least" /\ Lt(b.d, a.d) THEN b
    ELSE a

RECURSIVE DSumTo(_, _)
DSumTo(a, k) == IF k < 0 THEN Const(R(0)) ELSE DAdd(DSumTo(a, k - 1), a[k])

DSum(a) == DSumTo(a, ALen(a) - 1)

DDot(a, b) == DSum(Array([i \in DOMAIN a |-> DMul(a[i], b[i])]))

\* x with the derivative s along component k and 0 along the others
Seeded(x, k, s) ==
    Array([i \in DOMAIN x |-> Dual(x[i], IF i = k THEN R(s) ELSE R(0))])

\* (rr - 1)/rr
DFactorMF(rr) == DDiv(DSub(rr, Const(R(1))), rr)

\* get_discrepancy_covariances_MF, lines 475-479: every entry of F takes
\* its own min(nsample_ratios[ii], nsample_ratios[jj])
DFactorsMF(rs, tie) ==
    Array([ii \in DOMAIN rs |-> Array([jj \in DOMAIN rs |->
        DFactorMF(DMin(rs[ii], rs[jj], tie))])])

\* lines 540-544
DFactorKLAboveK(rs, L, ii, jj, ri) ==
    DAdd(DDiv(DMul(DSub(rs[ii], rs[L]), DSub(rs[jj], rs[L])),
              DMul(DMul(rs[ii], rs[jj]), rs[L])),
         DDiv(DSub(ri, rs[L]), DMul(rs[ii], rs[jj])))

\* get_discrepancy_covariances_KL, lines 529-550: entry F[ii, jj], ii <= jj
DFactorKL(rs, K, L, ii, jj, tie) ==
    IF ii = jj
    THEN IF ii <= K
         THEN DDiv(DSub(rs[ii], Const(R(1))), rs[ii])
         ELSE DDiv(DSub(rs[ii], rs[L]), DMul(rs[ii], rs[L]))
    ELSE IF ii <= K /\ jj <= K
         THEN DFactorMF(DMin(rs[ii], rs[jj], tie))
    ELSE IF jj > K /\ ii > K
         THEN DFactorKLAboveK(rs, L, ii, jj, DMin(rs[ii], rs[jj], tie))
    ELSE IF ii > L /\ ii <= K /\ jj > K
         THEN DDiv(DSub(rs[ii], rs[L]), DMul(rs[ii], rs[L]))
    ELSE IF jj > L /\ jj <= K /\ ii > K
         THEN DDiv(DSub(rs[jj], rs[L]), DMul(rs[jj], rs[L]))
    ELSE Const(R(0))

\* line 550: F[jj, ii] = F[ii, jj], the same tensor
DFactorsKL(rs, K, L, tie) ==
    Array([ii \in DOMAIN rs |-> Array([jj \in DOMAIN rs |->
        IF ii <= jj THEN DFactorKL(rs, K, L, ii, jj, tie)
        ELSE DFactorKL(rs, K, L, jj, ii, tie)])])

\* CF = cov[1:,1:] * F and cf = diag(F) * cov[1:,0]
DDiscrepancyCovariances(cov, F) ==
    [CF |-> Array([ii \in DOMAIN F |-> Array([jj \in DOMAIN F |->
                DMul(Const(cov[ii + 1][jj + 1]), F[ii][jj])])]),
     cf |-> Array([ii \in DOMAIN F |->
                DMul(F[ii][ii], Const(cov[ii + 1][0]))])]

DDet(M) ==
    IF ALen(M) = 1 THEN M[0][0]
    ELSE DSub(DMul(M[0][0], M[1][1]), DMul(M[0][1], M[1][0]))

\* torch.inverse of a 1x1 or 2x2 matrix with determinant d
DInverseBy(M, d) ==
    IF ALen(M) = 1 THEN Arr(<<Arr(<<DDiv(Const(R(1)), d)>>)>>)
    ELSE Arr(<<Arr(<<DDiv(M[1][1], d),
                     DDiv(DSub(Const(R(0)), M[0][1]), d)>>),
               Arr(<<DDiv(DSub(Const(R(0)), M[1][0]), d),
                     DDiv(M[0][0], d)>>)>>)

DMv(M, v) == Array([i \in DOMAIN M |-> DDot(M[i], v)])

\* get_rsquared_acv, lines 608-617, on torch tensors: the except branch
\* returns 0*nsample_ratios[0]
DRsquaredAcvBy(cov, rs, CFcf, d) ==
    IF d.v = R(0) \/ ~IsFinite(d.v)
    THEN DMul(Const(R(0)), rs[0])
    ELSE DDiv(DDot(CFcf.cf, DMv(DInverseBy(CFcf.CF, d), CFcf.cf)),
              Const(cov[0][0]))

DGetRsquaredAcv(cov, rs, CFcf) == DRsquaredAcvBy(cov, rs, CFcf, DDet(CFcf.CF))

RECURSIVE DRhat(_, _)
\* lines 177-179
DRhat(rs, ii) ==
    IF ii = 0 THEN Const(R(1)) ELSE DSub(rs[ii - 1], DRhat(rs, ii - 1))

\* get_rsquared_mlmc, lines 174-189
DGetRsquaredMlmc(cov, rs) ==
    DSub(Const(R(1)),
         DDiv(DSum(Array([ii \in DOMAIN cov |->
                     DDiv(Const(MlmcTermVariance(cov, ii)), DRhat(rs, ii))])),
              Const(cov[0][0])))

\* the factor cov[0,ii+1]/(cov[0,0]*cov[ii+1,ii+1])*cov[0,ii+1]
MfmcCorrelation(cov, ii) ==
    Mul(Div(cov[0][ii + 1], Mul(cov[0][0], cov[ii + 1][ii + 1])),
        cov[0][ii + 1])

\* lines 141-147: the term of low-fidelity model ii+1
DMfmcTerm(cov, rs, ii) ==
    IF ii = 0
    THEN DMul(DDiv(DSub(rs[0], Const(R(1))), rs[0]),
              Const(MfmcCorrelation(cov, 0)))
    ELSE DMul(DDiv(DSub(rs[ii], rs[ii - 1]), DMul(rs[ii], rs[ii - 1])),
              Const(MfmcCorrelation(cov, ii)))

\* get_rsquared_mfmc, lines 139-148
DGetRsquaredMfmc(cov, rs) ==
    DSum(Array([ii \in DOMAIN rs |-> DMfmcTerm(cov, rs, ii)]))

\* get_rsquared of each class on tracked ratios
DEstimatorGetRsquared(estimator, cov, rs, tie) ==
    CASE estimator.kind = "ACV2" ->
            DGetRsquaredAcv(cov, rs,
                DDiscrepancyCovariances(cov, DFactorsMF(rs, tie)))
      [] estimator.kind = "ACV2KL" ->
            DGetRsquaredAcv(cov, rs,
                DDiscrepancyCovariances(cov,
                    DFactorsKL(rs, estimator.K - 1, estimator.L - 1, tie)))
      [] estimator.kind = "MFMC" -> DGetRsquaredMfmc(cov, rs)
      [] estimator.kind = "MLMC" -> DGetRsquaredMlmc(cov, rs)

\* ACV2.variance_reduction, lines 1136-1137
DVarianceReduction(estimator, cov, rs, tie) ==
    DSub(Const(R(1)), DEstimatorGetRsquared(estimator, cov, rs, tie))

\* torch.log10: the derivative is d/(v*ln(10)), kept in units of 1/ln(10)
DLog10(g) == Dual(Log10(g.v), Div(g.d, g.v))

\* the gradient of the variance reduction alone: nhf enters nowhere
GammaOfRatiosOnly(estimator, cov, xd) ==
    DLog10(DMul(DVarianceReduction(estimator, cov, Tail0(xd), "first"),
                Const(cov[0][0])))

\* lines 845-849: gamma = log10(variance_reduction(ratios)*cov[0,0]/nhf)
\* of xrats = [nhf, ratios]
GammaOf(estimator, cov, xd) ==
    DLog10(DDiv(DMul(DVarianceReduction(estimator, cov, Tail0(xd), "first"),
                     Const(cov[0][0])),
                xd[0]))

\* acv_sample_allocation_jacobian_all, lines 844-853: xrats.grad after
\* gamma.backward(), in units of 1/ln(10)
AcvSampleAllocationJacobianAll(estimator, cov, x) ==
    Array([k \in DOMAIN x |-> GammaOf(estimator, cov, Seeded(x, k, 1)).d])
-----------------------------------------------------------------------------
(* The allocation optimizer: scipy.optimize.minimize under the bounds and  *)
(* constraints the solve_* functions hand to it.  minimize is searched on  *)
(* a grid: it returns a point of the grid that satisfies what it was given *)
(* and has the least objective there, or fails.                            *)

\* ratios the optimizer may return
RatioGrid == {R(1), Q(8, 5), R(2), R(3), R(4), R(6)}

\* how many multiples of the on-budget nhf the grid holds
NhfMultiples == 2

\* acv_sample_allocation_cost_constraint_all, lines 805-807
AcvSampleAllocationCostConstraintAll(x, costs, target_cost) ==
    Sub(target_cost,
        Mul(x[0], Add(costs[0], Dot(Tail0(x), Tail0(costs)))))

\* acv_sample_allocation_sample_ratio_constraint, lines 620-622
AcvSampleAllocationSampleRatioConstraint(ratios, ind) ==
    Sub(ratios[ind], ratios[ind - 1])

\* the constraints each solve_* function builds: lines 933-936 and 882-885
SlsqpConstraints == {"cost"}
TrustRegionConstraints == {"cost"}

ConstraintHolds(c, x, costs, target_cost) ==
    CASE c = "cost" ->
            AcvSampleAllocationCostConstraintAll(x, costs, target_cost) = R(0)
      [] c = "ratio" ->
            \A ind \in 1..(ALen(x) - 2) :
                Leq(R(0),
                    AcvSampleAllocationSampleRatioConstraint(Tail0(x), ind))

\* bounds: every component of x is >= 1 (lines 897-898 and 932)
InBounds(x) == \A i \in DOMAIN x : Leq(R(1), x[i])

GridVectors(n) ==
    IF n = 1 THEN {Arr(<<a>>) : a \in RatioGrid}
    ELSE {Arr(<<a, b>>) : a \in RatioGrid, b \in RatioGrid}

\* x = [nhf] + r
Concat(nhf, r) ==
    Array([i \in 0..ALen(r) |-> IF i = 0 THEN nhf ELSE r[i - 1]])

\* x = [nhf, r]: nhf a multiple of the nhf that spends target_cost exactly
GridPoints(costs, target_cost) ==
    {Concat(Mul(R(m), Div(target_cost,
                          Add(costs[0], Dot(r, Tail0(costs))))), r) :
     r \in GridVectors(ALen(costs) - 1), m \in 1..NhfMultiples}

\* the points with the least objective among vals = {[x, v = objective(x)]}
ArgMin(vals) ==
    {p.x : p \in {p \in vals :
                    /\ ~LogIsNaN(p.v)
                    /\ \A q \in vals : LogIsNaN(q.v) \/ ~LogLt(q.v, p.v)}}

\* the points of the grid inside the bounds that satisfy the constraints
Feasible(costs, target_cost, constraints) ==
    {x \in GridPoints(costs, target_cost) :
        /\ InBounds(x)
        /\ \A c \in constraints : ConstraintHolds(c, x, costs, target_cost)}

\* the OptimizeResult records minimize can return
Minimize(estimator, cov, costs, target_cost, initial_guess, constraints) ==
    {[success |-> TRUE, x |-> x] :
        x \in ArgMin({[x |-> y,
                       v |-> AcvSampleAllocationObjectiveAll(estimator, cov, y)] :
                      y \in Feasible(costs, target_cost, constraints)})}
    \cup {[success |-> FALSE, x |-> initial_guess]}

\* solve_allocate_samples_acv_trust_region_optimization, lines 889-905
SolveTrustRegion(opt) ==
    IF opt.success = FALSE
    THEN [status |-> "error", msg |-> "Trust-constr optimizer failed"]
    ELSE [status |-> "ok", opt |-> opt]

\* the SLSQP solve without the test of opt.success at lines 943-944
SolveSlsqpUnchecked(opt) == [status |-> "ok", opt |-> opt]

\* solve_allocate_samples_acv_slsqp_optimization, lines 917-945
SolveSlsqp(opt) ==
    IF opt.success = FALSE
    THEN [status |-> "error", msg |-> "SLSQP optimizer failed"]
    ELSE [status |-> "ok", opt |-> opt]

SolverConstraints(optim_method) ==
    IF optim_method = "trust-constr" THEN TrustRegionConstraints
    ELSE SlsqpConstraints

\* lines 910-912: the initial guess built from an MLMC allocation
InitialGuessFrom(a) ==
    IF a.status = "error" THEN a
    ELSE [status |-> "ok",
          initial_guess |-> Concat(a.nhf_samples, a.nsample_ratios)]

\* get_initial_guess, lines 908-913, with initial_guess = None
GetInitialGuess(cov, costs, target_cost) ==
    InitialGuessFrom(AllocateSamplesMlmc(cov, costs, target_cost, TRUE))

SolverResultsFrom(g, cov, costs, target_cost, estimator, optim_method) ==
    IF g.status = "error" THEN {[success |-> FALSE, x |-> <<>>]}
    ELSE Minimize(estimator, cov, costs, target_cost, g.initial_guess,
                  SolverConstraints(optim_method))

\* what minimize may return for a call of allocate_samples_acv
SolverResults(cov, costs, target_cost, estimator, optim_method) ==
    SolverResultsFrom(GetInitialGuess(cov, costs, target_cost),
                      cov, costs, target_cost, estimator, optim_method)

\* lines 988-995, after standardize_sample_ratios returned std
AcvFrom(cov, estimator, std) ==
    IF std.status = "error"
    THEN [status |-> "error", msg |-> std.msg,
          calls |-> <<"get_initial_guess", "minimize",
                      "standardize_sample_ratios">>]
    ELSE [status |-> "ok",
          nhf_samples |-> std.nhf_samples,
          nsample_ratios |-> std.nsample_ratios,
          log10_variance |->
              Log10(Mul(VarianceReduction(estimator, cov, std.nsample_ratios),
                        Div(cov[0][0], std.nhf_samples))),
          calls |-> <<"get_initial_guess", "minimize",
                      "standardize_sample_ratios", "variance_reduction">>]

\* lines 980-995, after get_initial_guess returned g and the solver solved
AcvSolved(cov, estimator, g, solved) ==
    IF g.status = "error"
    THEN [status |-> "error", msg |-> g.msg,
          calls |-> <<"get_initial_guess">>]
    ELSE IF solved.status = "error"
    THEN [status |-> "error", msg |-> solved.msg,
          calls |-> <<"get_initial_guess", "minimize">>]
    ELSE AcvFrom(cov, estimator,
                 StandardizeSampleRatios(solved.opt.x[0],
                                         Tail0(solved.opt.x)))

\* allocate_samples_acv, lines 978-995; opt is what minimize returned.
\* calls lists the stages the call went through.
AllocateSamplesAcv(cov, costs, target_cost, estimator, optim_method, opt) ==
    AcvSolved(cov, estimator, GetInitialGuess(cov, costs, target_cost),
              IF optim_method = "trust-constr" THEN SolveTrustRegion(opt)
              ELSE SolveSlsqp(opt))

-----------------------------------------------------------------------------
(* allocate_samples_acv_best_kl, lines 997-1025.  Every allocate_samples_acv *)
(* call uses the default optim_method, SLSQP.  The operator yields the set   *)
(* of results the call can have, one for each choice of what minimize        *)
(* returns in each of the solves.                                            *)

\* line 1018: cost <= target_cost+10
CostSlack == 10

RECURSIVE KLPairsFrom(_, _, _)
\* lines 1006-1008: the pairs (K, L) in the order of the two loops
KLPairsFrom(nmodels, K, L) ==
    IF K > nmodels - 1 THEN <<>>
    ELSE IF L > K THEN KLPairsFrom(nmodels, K + 1, 1)
    ELSE <<[K |-> K, L |-> L]>> \o KLPairsFrom(nmodels, K, L + 1)

KLPairs(nmodels) == KLPairsFrom(nmodels, 1, 1)

\* one allocate_samples_acv solve as best_kl sees it
Solved(estimator, a) ==
    [estimator |-> estimator, nhf_samples |-> a.nhf_samples,
     nsample_ratios |-> a.nsample_ratios, log10_variance |-> a.log10_variance]

\* lines 998-1002: the state after the ACV2 solve returned a
BestKlInit(nmodels, a) ==
    [status |-> "ok", nhf_samples |-> a.nhf_samples,
     nsample_ratios |-> a.nsample_ratios,
     K |-> nmodels - 1, L |-> nmodels - 1, gamma |-> a.log10_variance,
     solved |-> <<Solved(ACV2, a)>>]

\* lines 1014-1020: the state after the solve for (K, L) returned a
BestKlUpdate(cur, costs, target_cost, K, L, a) ==
    IF /\ LogLt(a.log10_variance, cur.gamma)
       /\ Leq(AllocationCost(costs, a.nhf_samples, a.nsample_ratios),
              Add(target_cost, R(CostSlack)))
    THEN [status |-> "ok", nhf_samples |-> a.nhf_samples,
          nsample_ratios |-> a.nsample_ratios, K |-> K, L |-> L,
          gamma |-> a.log10_variance,
          solved |-> Append(cur.solved, Solved(ACV2KL(K, L), a))]
    ELSE [cur EXCEPT !.solved = Append(cur.solved, Solved(ACV2KL(K, L), a))]

RECURSIVE BestKlLoop(_, _, _, _, _, _)
RECURSIVE BestKlAfter(_, _, _, _, _, _, _)

\* lines 1006-1023 from the k-th pair on
BestKlLoop(cov, costs, target_cost, pairs, k, cur) ==
    IF k > Len(pairs) THEN {cur}
    ELSE UNION {BestKlAfter(cov, costs, target_cost, pairs, k, cur,
                    AllocateSamplesAcv(cov, costs, target_cost,
                        ACV2KL(pairs[k].K, pairs[k].L), "SLSQP", opt)) :
                opt \in SolverResults(cov, costs, target_cost,
                            ACV2KL(pairs[k].K, pairs[k].L), "SLSQP")}

\* an exception of allocate_samples_acv ends the call
BestKlAfter(cov, costs, target_cost, pairs, k, cur, a) ==
    IF a.status = "error" THEN {[status |-> "error", msg |-> a.msg]}
    ELSE BestKlLoop(cov, costs, target_cost, pairs, k + 1,
                    BestKlUpdate(cur, costs, target_cost,
                                 pairs[k].K, pairs[k].L, a))

BestKlStart(cov, costs, target_cost, a) ==
    IF a.status = "error" THEN {[status |-> "error", msg |-> a.msg]}
    ELSE BestKlLoop(cov, costs, target_cost, KLPairs(ALen(costs)), 1,
                    BestKlInit(ALen(costs), a))

\* allocate_samples_acv_best_kl, lines 997-1025
AllocateSamplesAcvBestKl(cov, costs, target_cost) ==
    UNION {BestKlStart(cov, costs, target_cost,
               AllocateSamplesAcv(cov, costs, target_cost, ACV2, "SLSQP", opt)) :
           opt \in SolverResults(cov, costs, target_cost, ACV2, "SLSQP")}

-----------------------------------------------------------------------------
(* Sample generation.  A sample is the number of the column that           *)
(* generate_samples drew for it: the k-th column ever drawn is k, so two   *)
(* calls never return the same sample.  samples[:, :k] is a prefix.  The   *)
(* value of model ii at sample s is the pair <<ii, s>>.                     *)

\* the n samples drawn after first-1 samples were drawn
Draw(first, n) == [k \in 1..n |-> first + k - 1]

\* s[:, :k]
Prefix(s, k) == SubSeq(s, 1, IF k < Len(s) THEN k ELSE Len(s))

\* s[:k] of a flat array of values
Take(s, k) == SubSeq(s, 1, IF k < Len(s) THEN k ELSE Len(s))

\* functions[ii](samples)
Evaluate(ii, samples) == [k \in 1..Len(samples) |-> <<ii, samples[k]>>]

RECURSIVE MaxTo(_, _)
\* max(a[0], ..., a[k]) of integers
MaxTo(a, k) ==
    IF k = 0 THEN a[0]
    ELSE IF a[k] > MaxTo(a, k - 1) THEN a[k] ELSE MaxTo(a, k - 1)

\* samples2 as the whole batch, whatever the ratio of the level
MfmcSamples2Whole(samples, nlf_samples, ii) == samples

\* lines 757-765: samples1 and samples2 cut from the one batch
MfmcSamples2(samples, nlf_samples, ii) == Prefix(samples, nlf_samples[ii - 1])

\* samples1 with nprev_samples never advanced past nhf_samples
MfmcSamples1Fixed(samples, nhf_samples, nlf_samples, ii) ==
    Prefix(samples, nhf_samples)

MfmcSamples1(samples, nhf_samples, nlf_samples, ii) ==
    IF ii <= 1 THEN Prefix(samples, nhf_samples)
    ELSE Prefix(samples, Len(MfmcSamples2(samples, nlf_samples, ii - 1)))

\* lines 757-780 and 796-798: the lists built from the batch samples
MfmcFromBatch(nhf_samples, nlf_samples, samples) ==
    [status |-> "ok",
     samples1 |-> Array([ii \in 0..ALen(nlf_samples) |->
         MfmcSamples1(samples, nhf_samples, nlf_samples, ii)]),
     samples2 |-> Array([ii \in 0..ALen(nlf_samples) |->
         IF ii = 0 THEN "None"
         ELSE MfmcSamples2(samples, nlf_samples, ii)]),
     values1 |-> Array([ii \in 0..ALen(nlf_samples) |->
         IF ii = 0 THEN Evaluate(0, Prefix(samples, nhf_samples))
         ELSE Take(Evaluate(ii, MfmcSamples2(samples, nlf_samples, ii)),
                   Len(MfmcSamples1(samples, nhf_samples, nlf_samples, ii)))]),
     values2 |-> Array([ii \in 0..ALen(nlf_samples) |->
         IF ii = 0 THEN "None"
         ELSE Evaluate(ii, MfmcSamples2(samples, nlf_samples, ii))]),
     generated |-> <<Len(samples)>>]

\* lines 755-757: nlf_samples as integers, and the one generate_samples call
MfmcChecked(nhf_samples, nlf_samples) ==
    MfmcFromBatch(nhf_samples, nlf_samples,
                  Draw(1, MaxTo(nlf_samples, ALen(nlf_samples) - 1)))

\* the scheme with int(nlf_samples[ii]) taken without the assertion before it
GenerateSamplesAndValuesMfmcTruncating(nhf_samples, nsample_ratios) ==
    IF \E i \in DOMAIN nsample_ratios : ~Leq(R(1), nsample_ratios[i])
    THEN [status |-> "error", msg |-> "AssertionError", generated |-> <<>>]
    ELSE IF Floor(nhf_samples) = 0
    THEN [status |-> "error", msg |-> "ZeroDivisionError", generated |-> <<>>]
    ELSE IF ~IsInt(nhf_samples)
    THEN [status |-> "error", msg |-> "AssertionError", generated |-> <<>>]
    ELSE MfmcChecked(nhf_samples[1],
             Array([i \in DOMAIN nsample_ratios |->
                 Floor(Mul(nhf_samples, nsample_ratios[i]))]))

\* generate_samples_and_values_mfmc, lines 743-798, with a list of functions.
\* generated lists the sizes asked of generate_samples, one per call.
GenerateSamplesAndValuesMfmc(nhf_samples, nsample_ratios) ==
    IF \E i \in DOMAIN nsample_ratios : ~Leq(R(1), nsample_ratios[i])
    THEN [status |-> "error", msg |-> "AssertionError", generated |-> <<>>]
    ELSE IF Floor(nhf_samples) = 0
    THEN [status |-> "error", msg |-> "ZeroDivisionError", generated |-> <<>>]
    ELSE IF ~IsInt(nhf_samples)
    THEN [status |-> "error", msg |-> "AssertionError", generated |-> <<>>]
    ELSE IF \E i \in DOMAIN nsample_ratios :
                ~IsInt(Mul(nhf_samples, nsample_ratios[i]))
    THEN [status |-> "error", msg |-> "AssertionError", generated |-> <<>>]
    ELSE MfmcChecked(nhf_samples[1],
             Array([i \in DOMAIN nsample_ratios |->
                 Mul(nhf_samples, nsample_ratios[i])[1]]))

\* lines 683-688 and 712-715: the values and the returned lists
MlmcReturnSamples(samples1, samples2, generated) ==
    [status |-> "ok",
     samples1 |-> Arr(samples1),
     samples2 |-> Arr(samples2),
     values1 |-> Array([ii \in 0..(Len(samples1) - 1) |->
         Evaluate(ii, samples1[ii + 1])]),
     values2 |-> Array([ii \in 0..(Len(samples1) - 1) |->
         IF ii = 0 THEN "None" ELSE Evaluate(ii, samples2[ii + 1])]),
     generated |-> generated]

\* prev_samples never advanced past samples1[0]
PrevSamplesFixed(samples1, samples2) == samples1[1]

\* line 673 and line 681: prev_samples at the head of an iteration
PrevSamples(samples1, samples2) ==
    IF Len(samples2) = 1 THEN samples1[1] ELSE samples2[Len(samples2)]

RECURSIVE MlmcLevels(_, _, _, _, _, _, _)

\* lines 678-681 of level ii: generate_samples raises for a negative size
MlmcLevel(nhf_samples, nsample_ratios, ii, samples1, samples2, generated, ndrawn, nnew_samples) ==
    IF nnew_samples < 0
    THEN [status |-> "error", msg |-> "ValueError", generated |-> generated]
    ELSE MlmcLevels(nhf_samples, nsample_ratios, ii + 1,
                    Append(samples1, PrevSamples(samples1, samples2)),
                    Append(samples2, Draw(ndrawn + 1, nnew_samples)),
                    Append(generated, nnew_samples), ndrawn + nnew_samples)

\* lines 674-681: the loop over the levels from ii on, ndrawn samples drawn
MlmcLevels(nhf_samples, nsample_ratios, ii, samples1, samples2, generated, ndrawn) ==
    IF ii = ALen(nsample_ratios)
    THEN MlmcReturnSamples(samples1, samples2, generated)
    ELSE IF ~IsInt(Mul(nsample_ratios[ii], R(nhf_samples)))
    THEN [status |-> "error", msg |-> "AssertionError",
          generated |-> generated]
    ELSE MlmcLevel(nhf_samples, nsample_ratios, ii, samples1, samples2,
                   generated, ndrawn,
                   Mul(nsample_ratios[ii], R(nhf_samples))[1]
                   - Len(PrevSamples(samples1, samples2)))

\* generate_samples_and_values_mlmc, lines 645-715, with a list of functions.
\* generate_samples raises for a size that is not an integer.
GenerateSamplesAndValuesMlmc(nhf_samples, nsample_ratios) ==
    IF \E i \in DOMAIN nsample_ratios : ~Leq(R(1), nsample_ratios[i])
    THEN [status |-> "error", msg |-> "AssertionError", generated |-> <<>>]
    ELSE IF ~IsInt(nhf_samples)
    THEN [status |-> "error", msg |-> "TypeError", generated |-> <<>>]
    ELSE MlmcLevels(nhf_samples[1], nsample_ratios, 0,
                    <<Draw(1, nhf_samples[1])>>, <<"None">>,
                    <<nhf_samples[1]>>, nhf_samples[1])

-----------------------------------------------------------------------------
(* generate_samples_and_values_acv_IS, lines 624-643 *)

\* the extra samples of every model taken from the head of one shared batch
IsExtraSamplesShared(nhf_samples, ndrawn, nnew_samples) ==
    Draw(nhf_samples + 1, nnew_samples)

\* lines 636-637: generate_samples(nhf_samples*r-nhf_samples), the call made
\* after ndrawn samples were drawn
IsExtraSamples(nhf_samples, ndrawn, nnew_samples) ==
    Draw(ndrawn + 1, nnew_samples)

\* lines 635 and 639-643: samples1 is the same array for every model
IsReturnSamples(samples1, samples2, generated) ==
    [status |-> "ok",
     samples1 |-> Array([ii \in 0..(Len(samples2) - 1) |-> samples1]),
     samples2 |-> Arr(samples2),
     values1 |-> Array([ii \in 0..(Len(samples2) - 1) |->
         Evaluate(ii, samples1)]),
     values2 |-> Array([ii \in 0..(Len(samples2) - 1) |->
         IF ii = 0 THEN "None" ELSE Evaluate(ii, samples2[ii + 1])]),
     generated |-> generated]

RECURSIVE IsModels(_, _, _, _, _, _, _)

\* lines 636-638 for ratio ii: np.hstack of the new samples and samples1;
\* generate_samples raises for a size that is negative or not an integer
IsModel(nhf_samples, nsample_ratios, ii, samples1, samples2, generated, ndrawn, nnew_samples) ==
    IF ~IsInt(nnew_samples)
    THEN [status |-> "error", msg |-> "TypeError", generated |-> generated]
    ELSE IF nnew_samples[1] < 0
    THEN [status |-> "error", msg |-> "ValueError", generated |-> generated]
    ELSE IsModels(nhf_samples, nsample_ratios, ii + 1, samples1,
                  Append(samples2,
                         IsExtraSamples(nhf_samples, ndrawn, nnew_samples[1])
                         \o samples1),
                  Append(generated, nnew_samples[1]),
                  ndrawn + nnew_samples[1])

\* lines 636-638: the list comprehension from ratio ii on
IsModels(nhf_samples, nsample_ratios, ii, samples1, samples2, generated, ndrawn) ==
    IF ii = ALen(nsample_ratios)
    THEN IsReturnSamples(samples1, samples2, generated)
    ELSE IsModel(nhf_samples, nsample_ratios, ii, samples1, samples2,
                 generated, ndrawn,
                 Sub(Mul(R(nhf_samples), nsample_ratios[ii]), R(nhf_samples)))

\* generate_samples_and_values_acv_IS, lines 634-643.  functions is "list"
\* for a list of one function per model and "callable" for one batched
\* callable such as a ModelEnsemble, which has no len().
GenerateSamplesAndValuesAcvIS(nhf_samples, nsample_ratios, functions) ==
    IF functions = "callable"
    THEN [status |-> "error", msg |-> "TypeError", generated |-> <<>>]
    ELSE IF ~IsInt(nhf_samples)
    THEN [status |-> "error", msg |-> "TypeError", generated |-> <<>>]
    ELSE IsModels(nhf_samples[1], nsample_ratios, 0,
                  Draw(1, nhf_samples[1]), <<"None">>,
                  <<nhf_samples[1]>>, nhf_samples[1])

-----------------------------------------------------------------------------
(* Batched evaluation.  A batch samples_with_id is a sequence of columns   *)
(* <<sample, model id>>; its last row holds the model ids.                  *)

\* np.vstack([samples, ii*np.ones((1,samples.shape[1]))])
WithId(samples, ii) == [k \in 1..Len(samples) |-> <<samples[k], ii>>]

\* v[a:b]
Slice(v, a, b) == SubSeq(v, a + 1, IF b < Len(v) THEN b ELSE Len(v))

RECURSIVE WhereTo(_, _, _)
\* the indices of the first n columns that have the id ii, in increasing order
WhereTo(samples, ii, n) ==
    IF n = 0 THEN <<>>
    ELSE IF samples[n][2] = ii
         THEN Append(WhereTo(samples, ii, n - 1), n - 1)
         ELSE WhereTo(samples, ii, n - 1)

\* line 1060 and line 1067: np.where(model_ids==ii)[0]
Where(samples, ii) == WhereTo(samples, ii, Len(samples))

\* samples[:-1,I]
Columns(samples, I) == [j \in 1..Len(I) |-> samples[I[j] + 1][1]]

\* the row that values[I] = f(samples[:-1,I]) writes at index k, for k in I
RowWritten(samples, ii, I, k) ==
    Evaluate(ii, Columns(samples, I))[CHOOSE j \in 1..Len(I) : I[j] = k]

\* lines 1063-1068: the rows of values after the assignments.  empty is what
\* np.empty returned: a row that no assignment writes keeps its content
RowsOf(nmodels, samples, empty) ==
    [k \in 1..Len(samples) |->
        IF samples[k][2] \in 0..(nmodels - 1)
        THEN RowWritten(samples, samples[k][2],
                        Where(samples, samples[k][2]), k - 1)
        ELSE empty[k]]

\* ModelEnsemble.__call__, lines 1058-1069
ModelEnsembleCall(nmodels, samples, empty) ==
    IF Len(samples) = 0
    THEN [status |-> "error", msg |-> "ValueError"]
    ELSE IF \E k \in DOMAIN samples : ~(samples[k][2] < nmodels)
    THEN [status |-> "error", msg |-> "AssertionError"]
    ELSE [status |-> "ok", values |-> RowsOf(nmodels, samples, empty)]

RECURSIVE MlmcSamplesWithId(_, _, _)
\* lines 690-701: samples_with_id after the iteration of model ii
MlmcSamplesWithId(samples1, samples2, ii) ==
    IF ii = 0 THEN WithId(samples1[0], 0)
    ELSE MlmcSamplesWithId(samples1, samples2, ii - 1)
         \o WithId(samples1[ii], ii) \o WithId(samples2[ii], ii)

RECURSIVE MlmcCnt(_, _, _)
\* lines 705-710: cnt at the head of the iteration of model ii
MlmcCnt(samples1, samples2, ii) ==
    IF ii = 1 THEN Len(samples1[0])
    ELSE MlmcCnt(samples1, samples2, ii - 1)
         + Len(samples1[ii - 1]) + Len(samples2[ii - 1])

\* lines 703-710: values_flattened cut into values1 and values2
MlmcSplit(rec, values_flattened) ==
    [rec EXCEPT
        !.values1 = Array([ii \in DOMAIN rec.samples1 |->
            IF ii = 0 THEN Slice(values_flattened, 0, Len(rec.samples1[0]))
            ELSE Slice(values_flattened,
                       MlmcCnt(rec.samples1, rec.samples2, ii),
                       MlmcCnt(rec.samples1, rec.samples2, ii)
                       + Len(rec.samples1[ii]))]),
        !.values2 = Array([ii \in DOMAIN rec.samples1 |->
            IF ii = 0 THEN "None"
            ELSE Slice(values_flattened,
                       MlmcCnt(rec.samples1, rec.samples2, ii)
                       + Len(rec.samples1[ii]),
                       MlmcCnt(rec.samples1, rec.samples2, ii)
                       + Len(rec.samples1[ii]) + Len(rec.samples2[ii]))])]

\* lines 683-710: the values of the samples in rec.  Every id of the batch
\* selects a function, so no row of np.empty is kept
MlmcEvaluated(functions, rec) ==
    IF rec.status = "error" \/ functions = "list" THEN rec
    ELSE MlmcSplit(rec,
             ModelEnsembleCall(ALen(rec.samples1),
                 MlmcSamplesWithId(rec.samples1, rec.samples2,
                                   ALen(rec.samples1) - 1),
                 <<>>).values)

\* generate_samples_and_values_mlmc, lines 645-715; a callable functions is
\* a ModelEnsemble of the nmodels functions
GenerateSamplesAndValuesMlmcWith(functions, nhf_samples, nsample_ratios) ==
    MlmcEvaluated(functions,
                  GenerateSamplesAndValuesMlmc(nhf_samples, nsample_ratios))

RECURSIVE MfmcSamplesWithId(_, _, _)
\* lines 777-782: samples_with_id after the iteration of model ii
MfmcSamplesWithId(samples1, samples2, ii) ==
    IF ii = 0 THEN WithId(samples1[0], 0)
    ELSE MfmcSamplesWithId(samples1, samples2, ii - 1)
         \o WithId(samples2[ii], ii)

RECURSIVE MfmcCnt(_, _)
\* lines 786-791: cnt at the head of the iteration of model ii
MfmcCnt(samples2, ii) ==
    IF ii = 1 THEN 0 ELSE MfmcCnt(samples2, ii - 1) + Len(samples2[ii - 1])

\* lines 784-792: values_flattened cut into values1 and values2;
\* nprev_samples at the head of the iteration of model ii is nhf_samples for
\* ii = 1 and samples2[ii-1].shape[1] after
MfmcSplit(rec, values_flattened) ==
    [rec EXCEPT
        !.values1 = Array([ii \in DOMAIN rec.samples1 |->
            IF ii = 0 THEN Slice(values_flattened, 0, Len(rec.samples1[0]))
            ELSE Slice(values_flattened,
                       Len(rec.samples1[0]) + MfmcCnt(rec.samples2, ii),
                       Len(rec.samples1[0]) + MfmcCnt(rec.samples2, ii)
                       + (IF ii = 1 THEN Len(rec.samples1[0])
                          ELSE Len(rec.samples2[ii - 1])))]),
        !.values2 = Array([ii \in DOMAIN rec.samples1 |->
            IF ii = 0 THEN "None"
            ELSE Slice(values_flattened,
                       Len(rec.samples1[0]) + MfmcCnt(rec.samples2, ii),
                       Len(rec.samples1[0]) + MfmcCnt(rec.samples2, ii)
                       + Len(rec.samples2[ii]))])]

\* lines 767-792: the values of the samples in rec.  Every id of the batch
\* selects a function, so no row of np.empty is kept
MfmcEvaluated(functions, rec) ==
    IF rec.status = "error" \/ functions = "list" THEN rec
    ELSE MfmcSplit(rec,
             ModelEnsembleCall(ALen(rec.samples1),
                 MfmcSamplesWithId(rec.samples1, rec.samples2,
                                   ALen(rec.samples1) - 1),
                 <<>>).values)

\* generate_samples_and_values_mfmc, lines 721-798; a callable functions is
\* a ModelEnsemble of the nmodels functions
GenerateSamplesAndValuesMfmcWith(functions, nhf_samples, nsample_ratios) ==
    MfmcEvaluated(functions,
                  GenerateSamplesAndValuesMfmc(nhf_samples, nsample_ratios))

-----------------------------------------------------------------------------
(* The control variate estimate of the mean.  values[ii] is the pair       *)
(* <<values1, values2>> of model ii, each an array of numbers.              *)

\* v.mean()
Mean(v) == Div(Sum(v), R(ALen(v)))

\* the term of model ii+1 with the two means exchanged
DiscrepancyTermReversed(weights, values, ii) ==
    Mul(weights[ii], Sub(Mean(values[ii + 1][2]), Mean(values[ii + 1][1])))

\* line 232: weights[ii]*(values[ii+1][0].mean()-values[ii+1][1].mean())
DiscrepancyTerm(weights, values, ii) ==
    Mul(weights[ii], Sub(Mean(values[ii + 1][1]), Mean(values[ii + 1][2])))

RECURSIVE EstimateTo(_, _, _)
\* lines 230-232: est after the iterations 0..ii-1 of the loop
EstimateTo(weights, values, ii) ==
    IF ii = 0 THEN Mean(values[0][1])
    ELSE Add(EstimateTo(weights, values, ii - 1),
             DiscrepancyTerm(weights, values, ii - 1))

\* compute_control_variate_mean_estimate, lines 202-233
ComputeControlVariateMeanEstimate(weights, values) ==
    IF ALen(weights) < ALen(values) - 1
    THEN [status |-> "error", msg |-> "IndexError"]
    ELSE [status |-> "ok",
          est |-> EstimateTo(weights, values, ALen(values) - 1)]

-----------------------------------------------------------------------------
(* Inputs *)

\* nhf_samples offered to standardize_sample_ratios: k/10, k in 1..MaxNhfTenths
MaxNhfTenths == 100

NhfInputs == {Q(k, 10) : k \in 1..MaxNhfTenths}

\* ratios offered to standardize_sample_ratios (each >= 1, as the callers pass)
RatioInputs == {R(1), Q(3, 2), Q(21, 10), Q(219, 100), Q(5, 2), Q(332, 100),
                Q(7, 2), R(4)}

RatioVectors == {Arr(<<a>>) : a \in RatioInputs}
                \cup {Arr(<<a, b>>) : a \in RatioInputs, b \in RatioInputs}

Mat(rows) == Arr([i \in 1..Len(rows) |-> Arr(rows[i])])

\* covariance matrices (symmetric, positive definite, model 0 first)
CovTest == Mat(<< <<R(1),    Q(1, 2), Q(1, 4)>>,
                  <<Q(1, 2), R(1),    Q(1, 2)>>,
                  <<Q(1, 4), Q(1, 2), R(4)>> >>)

CovMf == Mat(<< <<R(4), R(3),    R(1)>>,
                <<R(3), R(3),    Q(1, 2)>>,
                <<R(1), Q(1, 2), R(1)>> >>)

Cov2 == Mat(<< <<R(4), R(3)>>,
               <<R(3), R(4)>> >>)

Cov2b == Mat(<< <<R(1),    Q(1, 2)>>,
                <<Q(1, 2), R(1)>> >>)

Covs == {CovTest, CovMf, Cov2, Cov2b}

CostVectors == {Arr(<<R(6), R(3), R(1)>>), Arr(<<R(1), R(1), R(1)>>),
                Arr(<<R(8), R(1), Q(1, 2)>>),
                Arr(<<R(1), Q(1, 10)>>), Arr(<<R(1), Q(1, 2)>>),
                Arr(<<R(1), R(10)>>)}

TargetCosts == {R(10), R(81), R(100), R(1000)}

\* cov, costs and target_cost of one allocation problem
Problems ==
    {p \in [cov : Covs, costs : CostVectors, target_cost : TargetCosts] :
        ALen(p.costs) = ALen(p.cov)}

Estimators(nmodels) ==
    {ACV2, MFMC, MLMC}
    \cup UNION {{ACV2KL(K, L) : L \in 1..K} : K \in 1..(nmodels - 1)}

OptimMethods == {"SLSQP", "trust-constr"}

\* nhf_samples offered to the sample generation: 1..MaxGenNhf, and 5/2
MaxGenNhf == 4

GenNhfInputs == {R(k) : k \in 1..MaxGenNhf} \cup {Q(5, 2)}

\* ratios offered to the sample generation, below 1 and fractional included
GenRatioInputs == {Q(1, 2), R(1), Q(3, 2), R(2), R(3), R(4)}

GenRatioVectors ==
    {Arr(<<a>>) : a \in GenRatioInputs}
    \cup {Arr(<<a, b>>) : a \in GenRatioInputs, b \in GenRatioInputs}

-----------------------------------------------------------------------------
(* The calls.  Each call starts from the idle state and leaves its         *)
(* arguments and its result in args and res.                               *)

Init ==
    /\ op = "init"
    /\ args = <<>>
    /\ res = <<>>

CallStandardizeSampleRatios ==
    \E nhf_samples \in NhfInputs, nsample_ratios \in RatioVectors :
        /\ op = "init"
        /\ op' = "standardize_sample_ratios"
        /\ args' = [nhf_samples |-> nhf_samples,
                    nsample_ratios |-> nsample_ratios]
        /\ res' = StandardizeSampleRatios(nhf_samples, nsample_ratios)

\* not a covariance: the variance of the discrepancy of the two models is -2
CovIndefinite == Mat(<< <<R(1), R(2)>>,
                        <<R(2), R(1)>> >>)

\* two models that agree: the variance of their discrepancy is 0
CovDegenerate == Mat(<< <<R(1), R(1)>>,
                        <<R(1), R(1)>> >>)

\* the problems offered to allocate_samples_mlmc
MlmcProblems ==
    Problems \cup
    {p \in [cov : {CovIndefinite, CovDegenerate},
            costs : CostVectors, target_cost : TargetCosts] :
        ALen(p.costs) = ALen(p.cov)}

\* Var(delta_i)/cost_i and Var(delta_i)*cost_i of discrepancy i: of models i
\* and i+1, and of the last model alone
VarOverCost(cov, costs, i) ==
    IF i < ALen(cov) - 1
    THEN Div(VarDelta(cov, i), Add(costs[i], costs[i + 1]))
    ELSE Div(cov[i][i], costs[i])

VarTimesCost(cov, costs, i) ==
    IF i < ALen(cov) - 1
    THEN Mul(VarDelta(cov, i), Add(costs[i], costs[i + 1]))
    ELSE Mul(cov[i][i], costs[i])

\* every square root the allocation takes is of a square of a rational
ExactRoots(cov, costs) ==
    \A i \in DOMAIN cov :
        /\ Sq(Sqrt(VarOverCost(cov, costs, i))) = VarOverCost(cov, costs, i)
        /\ Sq(Sqrt(VarTimesCost(cov, costs, i))) = VarTimesCost(cov, costs, i)

\* the problems solved without rounding: those whose solution is rational
UnroundedProblems ==
    {p \in [cov : Covs,
            costs : CostVectors \cup {Arr(<<R(1), R(1)>>),
                                      Arr(<<R(3), R(1)>>)},
            target_cost : TargetCosts] :
        /\ ALen(p.costs) = ALen(p.cov)
        /\ ExactRoots(p.cov, p.costs)}

CallAllocateSamplesMlmc ==
    \E standardize \in BOOLEAN :
      \E p \in (IF standardize THEN MlmcProblems ELSE UnroundedProblems) :
        /\ op = "init"
        /\ op' = "allocate_samples_mlmc"
        /\ args' = [cov |-> p.cov, costs |-> p.costs,
                    target_cost |-> p.target_cost,
                    standardize |-> standardize]
        /\ res' = AllocateSamplesMlmc(p.cov, p.costs, p.target_cost,
                                      standardize)

\* covariances decreasing, correlations increasing: 1/4 then 2/5
CovByCovariance == Mat(<< <<R(1),    Q(1, 2), Q(2, 5)>>,
                          <<Q(1, 2), R(4),    Q(1, 4)>>,
                          <<Q(2, 5), Q(1, 4), R(1)>> >>)

\* covariances increasing, correlations decreasing: 1/2 then 3/10
CovByCorrelation == Mat(<< <<R(1),    Q(1, 2), Q(3, 5)>>,
                           <<Q(1, 2), R(1),    Q(1, 4)>>,
                           <<Q(3, 5), Q(1, 4), R(4)>> >>)

\* covariances and correlations increasing
CovUnordered == Mat(<< <<R(1),    Q(1, 4), Q(1, 2)>>,
                       <<Q(1, 4), R(1),    Q(1, 2)>>,
                       <<Q(1, 2), Q(1, 2), R(1)>> >>)

\* the two low-fidelity models tied
CovTied == Mat(<< <<R(1),    Q(1, 2), Q(1, 2)>>,
                  <<Q(1, 2), R(1),    Q(1, 4)>>,
                  <<Q(1, 2), Q(1, 4), R(1)>> >>)

\* the problems offered to allocate_samples_mfmc
MfmcProblems ==
    Problems \cup
    {p \in [cov : {CovByCovariance, CovByCorrelation, CovUnordered, CovTied},
            costs : CostVectors, target_cost : TargetCosts] :
        ALen(p.costs) = ALen(p.cov)}

CallAllocateSamplesMfmc ==
    \E p \in MfmcProblems :
        /\ op = "init"
        /\ op' = "allocate_samples_mfmc"
        /\ args' = p
        /\ res' = AllocateSamplesMfmc(p.cov, p.costs, p.target_cost, TRUE)

CallAllocateSamplesAcv ==
    \E p \in Problems, optim_method \in OptimMethods :
      \E estimator \in Estimators(ALen(p.cov)) :
        \E opt \in SolverResults(p.cov, p.costs, p.target_cost, estimator,
                                 optim_method) :
            /\ op = "init"
            /\ op' = "allocate_samples_acv"
            /\ args' = [cov |-> p.cov, costs |-> p.costs,
                        target_cost |-> p.target_cost,
                        estimator |-> estimator,
                        optim_method |-> optim_method, opt |-> opt]
            /\ res' = AllocateSamplesAcv(p.cov, p.costs, p.target_cost,
                                         estimator, optim_method, opt)

CallAllocateSamplesAcvBestKl ==
    \E p \in Problems :
      \E result \in AllocateSamplesAcvBestKl(p.cov, p.costs, p.target_cost) :
        /\ op = "init"
        /\ op' = "allocate_samples_acv_best_kl"
        /\ args' = p
        /\ res' = result

\* the two kinds of the argument functions
FunctionKinds == {"list", "callable"}

CallGenerateSamplesAndValuesAcvIS ==
    \E nhf_samples \in GenNhfInputs, nsample_ratios \in GenRatioVectors :
      \E functions \in FunctionKinds :
        /\ op = "init"
        /\ op' = "generate_samples_and_values_acv_IS"
        /\ args' = [nhf_samples |-> nhf_samples,
                    nsample_ratios |-> nsample_ratios,
                    functions |-> functions]
        /\ res' = GenerateSamplesAndValuesAcvIS(nhf_samples, nsample_ratios,
                                                functions)

CallGenerateSamplesAndValuesMfmc ==
    \E nhf_samples \in GenNhfInputs, nsample_ratios \in GenRatioVectors :
      \E functions \in FunctionKinds :
        /\ op = "init"
        /\ op' = "generate_samples_and_values_mfmc"
        /\ args' = [nhf_samples |-> nhf_samples,
                    nsample_ratios |-> nsample_ratios,
                    functions |-> functions]
        /\ res' = GenerateSamplesAndValuesMfmcWith(functions, nhf_samples,
                                                   nsample_ratios)

CallGenerateSamplesAndValuesMlmc ==
    \E nhf_samples \in GenNhfInputs, nsample_ratios \in GenRatioVectors :
      \E functions \in FunctionKinds :
        /\ op = "init"
        /\ op' = "generate_samples_and_values_mlmc"
        /\ args' = [nhf_samples |-> nhf_samples,
                    nsample_ratios |-> nsample_ratios,
                    functions |-> functions]
        /\ res' = GenerateSamplesAndValuesMlmcWith(functions, nhf_samples,
                                                   nsample_ratios)

\* the model ids a batch may carry
ModelIds == {-1, 0, 1, 2}

\* the longest batch
MaxBatch == 3

\* batches whose column k carries the sample k
Batches ==
    UNION {[1..n -> ModelIds] : n \in 0..MaxBatch}

\* what a row of np.empty may hold: the memory is not initialised, and may
\* hold an output written earlier, here of function 0 or 1 at sample 1
EmptyRows == {<<0, 1>>, <<1, 1>>}

\* ModelEnsemble(functions)(samples) with nmodels functions
CallModelEnsemble ==
    \E nmodels \in {2, 3}, ids \in Batches :
      \E empty \in [DOMAIN ids -> EmptyRows] :
        /\ op = "init"
        /\ op' = "ModelEnsemble.__call__"
        /\ args' = [nmodels |-> nmodels,
                    samples |-> [k \in DOMAIN ids |-> <<k, ids[k]>>]]
        /\ res' = ModelEnsembleCall(nmodels,
                                    [k \in DOMAIN ids |-> <<k, ids[k]>>],
                                    empty)

\* ratios offered to the variance reduction and to the weights
AcvRatioInputs == {R(1), Q(3, 2), R(2), R(3)}

AcvRatioVectors(nmodels) ==
    {Arr(r) : r \in [1..(nmodels - 1) -> AcvRatioInputs]}

\* the discrepancy covariance functions for nmodels models
Strategies(nmodels) ==
    {StrategyIS, StrategyMF}
    \cup UNION {{StrategyKL(K, L) : L \in 0..K} : K \in 0..(nmodels - 2)}

\* CF,cf = get_discrepancy_covariances(cov,nsample_ratios)
CallGetDiscrepancyCovariances ==
    \E cov \in Covs :
      \E get_discrepancy_covariances \in Strategies(ALen(cov)) :
        \E nsample_ratios \in AcvRatioVectors(ALen(cov)) :
            /\ op = "init"
            /\ op' = "get_discrepancy_covariances"
            /\ args' = [cov |-> cov, nsample_ratios |-> nsample_ratios,
                        get_discrepancy_covariances |->
                            get_discrepancy_covariances]
            /\ res' = [status |-> "ok"]
                      @@ ApplyGetDiscrepancyCovariances(
                             get_discrepancy_covariances, cov, nsample_ratios)

\* estimator.variance_reduction(nsample_ratios), estimator built on cov
CallVarianceReduction ==
    \E cov \in Covs :
      \E estimator \in Estimators(ALen(cov)) :
        \E nsample_ratios \in AcvRatioVectors(ALen(cov)) :
            /\ op = "init"
            /\ op' = "variance_reduction"
            /\ args' = [estimator |-> estimator, cov |-> cov,
                        nsample_ratios |-> nsample_ratios]
            /\ res' = [status |-> "ok",
                       gamma |-> VarianceReduction(estimator, cov,
                                                   nsample_ratios)]

\* nhf of the points x = [nhf, ratios] the objective is evaluated at
ObjectiveNhfInputs == {R(1), R(2), Q(5, 2)}

\* estimator.objective(x) and estimator.jacobian(x), lines 1139-1143
CallJacobian ==
    \E cov \in Covs :
      \E estimator \in Estimators(ALen(cov)) :
        \E nhf \in ObjectiveNhfInputs, r \in AcvRatioVectors(ALen(cov)) :
            /\ op = "init"
            /\ op' = "jacobian"
            /\ args' = [estimator |-> estimator, cov |-> cov,
                        x |-> Arr(<<nhf>> \o Entries(r, ALen(r)))]
            /\ res' = [status |-> "ok",
                       objective |->
                           AcvSampleAllocationObjectiveAll(estimator, cov,
                                                           args'.x),
                       grad |->
                           AcvSampleAllocationJacobianAll(estimator, cov,
                                                          args'.x)]

CallGetRsquaredAcv ==
    \E cov \in Covs :
      \E get_discrepancy_covariances \in Strategies(ALen(cov)) :
        \E nsample_ratios \in AcvRatioVectors(ALen(cov)) :
            /\ op = "init"
            /\ op' = "get_rsquared_acv"
            /\ args' = [cov |-> cov, nsample_ratios |-> nsample_ratios,
                        get_discrepancy_covariances |->
                            get_discrepancy_covariances]
            /\ res' = GetRsquaredAcvNumpy(cov, nsample_ratios,
                                          get_discrepancy_covariances)

CallGetApproximateControlVariateWeights ==
    \E cov \in Covs :
      \E get_discrepancy_covariances \in Strategies(ALen(cov)) :
        \E nsample_ratios \in AcvRatioVectors(ALen(cov)) :
            /\ op = "init"
            /\ op' = "get_approximate_control_variate_weights"
            /\ args' = [cov |-> cov, nsample_ratios |-> nsample_ratios,
                        get_discrepancy_covariances |->
                            get_discrepancy_covariances]
            /\ res' = GetApproximateControlVariateWeights(cov,
                          nsample_ratios, get_discrepancy_covariances)

\* arrays of model values
ValueArrays == {Arr(<<R(1)>>), Arr(<<R(1), R(2)>>), Arr(<<R(0), R(3), R(3)>>)}

\* control variate weights
WeightInputs == {R(-1), Q(-1, 2), R(2)}

\* the values of nmodels models: the high-fidelity model has no values2
ValueLists(nmodels) ==
    {Arr(<<<<v0, "None">>>> \o lf) :
        v0 \in ValueArrays,
        lf \in [1..(nmodels - 1) -> ValueArrays \X ValueArrays]}

\* weight vectors for nmodels models, and one that is too short
WeightVectors(nmodels) ==
    {Arr(w) : w \in [1..(nmodels - 1) -> WeightInputs]} \cup {Arr(<<>>)}

CallComputeControlVariateMeanEstimate ==
    \E nmodels \in 1..3 :
      \E weights \in WeightVectors(nmodels), values \in ValueLists(nmodels) :
        /\ op = "init"
        /\ op' = "compute_control_variate_mean_estimate"
        /\ args' = [weights |-> weights, values |-> values]
        /\ res' = ComputeControlVariateMeanEstimate(weights, values)

Next ==
    \/ CallStandardizeSampleRatios
    \/ CallGenerateSamplesAndValuesAcvIS
    \/ CallGenerateSamplesAndValuesMfmc
    \/ CallGenerateSamplesAndValuesMlmc
    \/ CallModelEnsemble
    \/ CallComputeControlVariateMeanEstimate
    \/ CallVarianceReduction
    \/ CallJacobian
    \/ CallGetDiscrepancyCovariances
    \/ CallGetRsquaredAcv
    \/ CallGetApproximateControlVariateWeights
    \/ CallAllocateSamplesMlmc
    \/ CallAllocateSamplesMfmc
    \/ CallAllocateSamplesAcv
    \/ CallAllocateSamplesAcvBestKl

Spec == Init /\ [][Next]_vars

-----------------------------------------------------------------------------
(* Properties of the allocators and of standardize_sample_ratios *)

\* the three allocators, run with standardize=True
IsAllocation ==
    /\ op \in {"allocate_samples_mlmc", "allocate_samples_mfmc",
               "allocate_samples_acv"}
    /\ op = "allocate_samples_mlmc" => args.standardize
    /\ res.status = "ok"

\* a[i] <= a[i+1] along the array
NonDecreasing(a) ==
    \A i \in DOMAIN a : i = 0 \/ Leq(a[i - 1], a[i])

\* C1: the allocation (Nhf, r) an allocator returns costs
\* costs[0]*Nhf + sum_i costs[i]*r[i]*Nhf, which is over target_cost by no
\* more than a small tolerance; a tenth of target_cost is taken as the
\* largest tolerance that can be called small.
C1_CostWithinTolerance ==
    IsAllocation =>
        Leq(AllocationCost(args.costs, res.nhf_samples, res.nsample_ratios),
            Mul(Q(11, 10), args.target_cost))

\* C2: the allocation an allocator returns has Nhf >= 1 and every ratio
\* r[i] >= 1; rounding never produces a ratio of 0.
C2_RatiosAtLeastOne ==
    IsAllocation =>
        /\ Leq(R(1), res.nhf_samples)
        /\ \A i \in DOMAIN res.nsample_ratios :
               Leq(R(1), res.nsample_ratios[i])

RECURSIVE LevelSamples(_, _, _)
\* n_0 = Nhf, n_i = r[i-1]*Nhf - n_(i-1)
LevelSamples(nhf, r, i) ==
    IF i = 0 THEN nhf
    ELSE Sub(Mul(r[i - 1], nhf), LevelSamples(nhf, r, i - 1))

\* sum_i Var(delta_i)/n_i, delta_i = f_i - f_(i+1) and delta_(n-1) = f_(n-1)
LevelVarianceSum(cov, nhf, r) ==
    Sum(Array([i \in DOMAIN cov |->
        Div(IF i < ALen(cov) - 1
            THEN Sub(Add(cov[i][i], cov[i + 1][i + 1]),
                     Mul(R(2), cov[i][i + 1]))
            ELSE cov[i][i],
            LevelSamples(nhf, r, i))]))

\* log10 of (1 - rsquared) * cov[0,0] / Nhf
Log10VarianceAt(rsquared, cov, nhf) ==
    Log10(Div(Mul(Sub(R(1), rsquared), cov[0][0]), nhf))

\* C3: the log10 variance an allocator reports is that of the allocation it
\* returns, log10((1 - rsquared(cov, r)) * cov[0,0] / Nhf) with the rsquared
\* of the estimator at the returned, rounded (Nhf, r); for MLMC it is
\* log10(sum_i Var(delta_i)/n_i), n_0 = Nhf, n_i = r[i-1]*Nhf - n_(i-1).
C3_ReportedVarianceIsOfReturnedAllocation ==
    IsAllocation =>
        /\ op = "allocate_samples_mlmc" =>
            /\ res.log10_variance =
                 Log10VarianceAt(GetRsquaredMlmc(args.cov, res.nsample_ratios),
                                 args.cov, res.nhf_samples)
            /\ res.log10_variance =
                 Log10(LevelVarianceSum(args.cov, res.nhf_samples,
                                        res.nsample_ratios))
        /\ op = "allocate_samples_mfmc" =>
            res.log10_variance =
                 Log10VarianceAt(GetRsquaredMfmc(args.cov, res.nsample_ratios),
                                 args.cov, res.nhf_samples)
        /\ op = "allocate_samples_acv" =>
            res.log10_variance =
                 Log10VarianceAt(EstimatorGetRsquared(args.estimator, args.cov,
                                                      res.nsample_ratios),
                                 args.cov, res.nhf_samples)

\* an MLMC allocation of three models, with Nhf > 1, that rounding moved off
\* the continuous solution
C3_Witness ==
    /\ op = "allocate_samples_mlmc"
    /\ res.status = "ok"
    /\ ALen(args.cov) = 3
    /\ Lt(R(1), res.nhf_samples)
    /\ IsFinite(res.log10_variance.log10of)
    /\ MlmcContinuous(args.cov, args.costs, args.target_cost).nhf_samples
         # res.nhf_samples

\* n is x rounded to an integer
IsRounded(n, x) == IsInt(n) /\ Leq(AbsR(Sub(n, x)), Q(1, 2))

C5_NearestMultipleOfInverseNhf ==
    (/\ op = "standardize_sample_ratios"
     /\ res.status = "ok"
     /\ IsInt(args.nhf_samples)) =>
        \A i \in DOMAIN res.nsample_ratios :
            /\ IsInt(Mul(res.nsample_ratios[i], res.nhf_samples))
            /\ Leq(AbsR(Sub(res.nsample_ratios[i], args.nsample_ratios[i])),
                   Div(Q(1, 2), res.nhf_samples))

\* C6: the optimizer is given r[i] >= r[i-1] as a constraint, so for the
\* MFMC, MLMC and K/L-partitioned ACV estimators every allocation that
\* allocate_samples_acv returns, with either solver, has non-decreasing
\* ratios.
C6_OptimizedRatiosNonDecreasing ==
    (/\ op = "allocate_samples_acv"
     /\ res.status = "ok"
     /\ args.estimator.kind \in {"MFMC", "MLMC", "ACV2KL"}) =>
        NonDecreasing(res.nsample_ratios)

\* the message of the error raised for optim_method
OptimizerFailed(optim_method) ==
    IF optim_method = "trust-constr" THEN "Trust-constr optimizer failed"
    ELSE "SLSQP optimizer failed"

\* C7: when minimize returns success == False, allocate_samples_acv raises
\* an error naming the method used, with either method, and the call ends
\* there: neither standardize_sample_ratios nor the variance evaluation is
\* reached.
C7_FailedSolveRaises ==
    (/\ op = "allocate_samples_acv"
     /\ args.opt.success = FALSE
     /\ \E k \in DOMAIN res.calls : res.calls[k] = "minimize") =>
        /\ res.status = "error"
        /\ res.msg = OptimizerFailed(args.optim_method)
        /\ res.calls = <<"get_initial_guess", "minimize">>

\* minimize was called by the trust-region solve and did not converge
C7_Witness ==
    /\ op = "allocate_samples_acv"
    /\ args.optim_method = "trust-constr"
    /\ args.opt.success = FALSE
    /\ res.status = "error"
    /\ res.calls = <<"get_initial_guess", "minimize">>
    /\ res.msg = "Trust-constr optimizer failed"

\* the cost of a solved configuration is at most target_cost + 10
WithinSlack(costs, target_cost, s) ==
    Leq(AllocationCost(costs, s.nhf_samples, s.nsample_ratios),
        Add(target_cost, R(CostSlack)))

\* C8: allocate_samples_acv_best_kl returns the allocation of lowest log10
\* variance among the solved configurations whose cost
\* Nhf*(costs[0] + sum_i costs[i]*r[i]) is at most target_cost + 10: the
\* returned allocation satisfies that bound, it is one that achieved the
\* returned variance, and every pair (K, L), 1 <= L <= K <= n-1, was solved.
C8_BestKlWithinSlack ==
    (op = "allocate_samples_acv_best_kl" /\ res.status = "ok") =>
        /\ WithinSlack(args.costs, args.target_cost, res)
        /\ \E k \in DOMAIN res.solved :
            /\ res.solved[k].nhf_samples = res.nhf_samples
            /\ res.solved[k].nsample_ratios = res.nsample_ratios
            /\ res.solved[k].log10_variance = res.gamma
        /\ \A k \in DOMAIN res.solved :
            WithinSlack(args.costs, args.target_cost, res.solved[k]) =>
                ~LogLt(res.solved[k].log10_variance, res.gamma)
        /\ \A K \in 1..(ALen(args.costs) - 1) : \A L \in 1..K :
            \E k \in DOMAIN res.solved :
                res.solved[k].estimator = ACV2KL(K, L)

\* the batch drawn by the one generate_samples call
Batch == Draw(1, res.generated[1])

\* r[i]*Nhf of the arguments of a sample generation
NlfSamples(i) == Mul(args.nsample_ratios[i], args.nhf_samples)[1]

\* C9: generate_samples_and_values_mfmc calls the generator once, for
\* max(r)*Nhf samples; S2 of low-fidelity level i is the first r[i]*Nhf
\* columns of that batch, S1 of the first low-fidelity level is the
\* high-fidelity S1, of size Nhf, and S1 of every later level is the S2 of
\* the level above it.
C9_MfmcSamplesArePrefixes ==
    (op = "generate_samples_and_values_mfmc" /\ res.status = "ok") =>
        /\ Len(res.generated) = 1
        /\ \A i \in DOMAIN args.nsample_ratios :
               res.generated[1] >= NlfSamples(i)
        /\ \E i \in DOMAIN args.nsample_ratios :
               res.generated[1] = NlfSamples(i)
        /\ res.samples1[0] = SubSeq(Batch, 1, args.nhf_samples[1])
        /\ res.samples1[1] = res.samples1[0]
        /\ \A ii \in 1..ALen(args.nsample_ratios) :
            /\ res.samples2[ii] = SubSeq(Batch, 1, NlfSamples(ii - 1))
            /\ ii > 1 => res.samples1[ii] = res.samples2[ii - 1]

\* three models, the ratios not in increasing order
C9_Witness ==
    /\ op = "generate_samples_and_values_mfmc"
    /\ res.status = "ok"
    /\ args.nhf_samples = R(2)
    /\ args.nsample_ratios = Arr(<<R(3), R(2)>>)
    /\ res.generated = <<6>>
    /\ res.samples1[2] = <<1, 2, 3, 4, 5, 6>>

\* the samples of seq s
Range(s) == {s[k] : k \in DOMAIN s}

\* C10: generate_samples_and_values_mlmc returns a telescoping sequence: S1
\* of the first low-fidelity level is the high-fidelity S1, S1 of every later
\* level is the S2 of the level before it, and S2 of a level is drawn afresh,
\* in the number that gives the level r[i]*Nhf samples in all.
C10_MlmcSamplesTelescope ==
    (op = "generate_samples_and_values_mlmc" /\ res.status = "ok") =>
        /\ Len(res.samples1[0]) = args.nhf_samples[1]
        /\ res.samples1[1] = res.samples1[0]
        /\ \A ii \in 1..ALen(args.nsample_ratios) :
            /\ ii > 1 => res.samples1[ii] = res.samples2[ii - 1]
            /\ Len(res.samples1[ii]) + Len(res.samples2[ii])
                 = NlfSamples(ii - 1)
            /\ Cardinality(Range(res.samples2[ii])) = Len(res.samples2[ii])
            /\ Range(res.samples2[ii]) \cap Range(res.samples1[0]) = {}
            /\ \A jj \in 1..(ii - 1) :
                   Range(res.samples2[ii]) \cap Range(res.samples2[jj]) = {}

\* three models: the last level holds S2 of the level before and new samples
C10_Witness ==
    /\ op = "generate_samples_and_values_mlmc"
    /\ res.status = "ok"
    /\ args.nhf_samples = R(2)
    /\ args.nsample_ratios = Arr(<<R(2), R(3)>>)
    /\ res.samples1[2] = <<3, 4>>
    /\ res.samples2[2] = <<5, 6, 7, 8>>

\* the samples the generator call number k+1 returned, for k >= 1 the extra
\* samples of low-fidelity model k
CallSamples(k) == SubSeq(res.samples2[k], 1, res.generated[k + 1])

\* C11: generate_samples_and_values_acv_IS makes one generator call for the
\* Nhf core samples, which are S1 of every model, and for each low-fidelity
\* model i a call of its own for r[i]*Nhf - Nhf extra samples, which with
\* the core samples are S2_i; no extra sample is shared between two models
\* or with the core.
C11_IsSharedCoreOwnExtras ==
    (op = "generate_samples_and_values_acv_IS" /\ res.status = "ok") =>
        /\ Len(res.generated) = ALen(args.nsample_ratios) + 1
        /\ res.generated[1] = args.nhf_samples[1]
        /\ Len(res.samples1[0]) = args.nhf_samples[1]
        /\ \A ii \in DOMAIN res.samples1 : res.samples1[ii] = res.samples1[0]
        /\ \A ii \in 1..ALen(args.nsample_ratios) :
            /\ res.generated[ii + 1] = NlfSamples(ii - 1) - args.nhf_samples[1]
            /\ res.samples2[ii] = CallSamples(ii) \o res.samples1[ii]
            /\ Cardinality(Range(CallSamples(ii))) = res.generated[ii + 1]
            /\ Range(CallSamples(ii)) \cap Range(res.samples1[0]) = {}
            /\ \A jj \in 1..(ii - 1) :
                   Range(CallSamples(ii)) \cap Range(CallSamples(jj)) = {}

\* three models, each with extra samples of its own
C11_Witness ==
    /\ op = "generate_samples_and_values_acv_IS"
    /\ res.status = "ok"
    /\ args.nhf_samples = R(2)
    /\ args.nsample_ratios = Arr(<<R(2), R(3)>>)
    /\ res.generated = <<2, 2, 4>>
    /\ res.samples2[1] = <<3, 4, 1, 2>>
    /\ res.samples2[2] = <<5, 6, 7, 8, 1, 2>>


\* a successful call of one of the three sample generation schemes
Generated ==
    /\ op \in {"generate_samples_and_values_acv_IS",
               "generate_samples_and_values_mlmc",
               "generate_samples_and_values_mfmc"}
    /\ res.status = "ok"

\* in every scheme S2 of every low-fidelity model holds r[i]*Nhf samples and
\* V2 one value per sample of S2
C12_EverySchemeFullS2 ==
    Generated =>
        \A ii \in 1..ALen(args.nsample_ratios) :
            /\ Len(res.samples2[ii]) = NlfSamples(ii - 1)
            /\ Len(res.values2[ii]) = Len(res.samples2[ii])

\* C12: in the IS and the MFMC scheme S2 of every low-fidelity model i
\* holds exactly r[i]*Nhf samples; in the MLMC scheme S1 and S2 of model i
\* together hold exactly r[i]*Nhf samples; in every scheme V2 of model i has
\* one value per sample of S2.
C12_S2SizePerScheme ==
    Generated =>
        \A ii \in 1..ALen(args.nsample_ratios) :
            /\ op # "generate_samples_and_values_mlmc" =>
                   Len(res.samples2[ii]) = NlfSamples(ii - 1)
            /\ op = "generate_samples_and_values_mlmc" =>
                   Len(res.samples1[ii]) + Len(res.samples2[ii])
                     = NlfSamples(ii - 1)
            /\ Len(res.values2[ii]) = Len(res.samples2[ii])

\* the MFMC scheme with a batched callable, the second model with fewer
\* samples than the batch
C12_Witness ==
    /\ op = "generate_samples_and_values_mfmc"
    /\ res.status = "ok"
    /\ args.functions = "callable"
    /\ args.nhf_samples = R(2)
    /\ args.nsample_ratios = Arr(<<R(2), R(3)>>)
    /\ Len(res.samples2[1]) = 4
    /\ Len(res.values2[1]) = 4
    /\ Len(res.samples2[2]) = 6

\* the result of the scheme op on the arguments args with a list of callables
WithList ==
    IF op = "generate_samples_and_values_acv_IS"
    THEN GenerateSamplesAndValuesAcvIS(args.nhf_samples, args.nsample_ratios,
                                       "list")
    ELSE IF op = "generate_samples_and_values_mlmc"
    THEN GenerateSamplesAndValuesMlmcWith("list", args.nhf_samples,
                                          args.nsample_ratios)
    ELSE GenerateSamplesAndValuesMfmcWith("list", args.nhf_samples,
                                          args.nsample_ratios)

\* C13: each of the three sample generation schemes takes a batched callable
\* wherever it takes a list of callables, and a successful call returns one
\* (S1,S2) and one (V1,V2) pair per model.
C13_ListOrBatchedCallable ==
    op \in {"generate_samples_and_values_acv_IS",
            "generate_samples_and_values_mlmc",
            "generate_samples_and_values_mfmc"} =>
        /\ WithList.status = "ok" => res.status = "ok"
        /\ res.status = "ok" =>
            /\ DOMAIN res.samples1 = 0..ALen(args.nsample_ratios)
            /\ DOMAIN res.samples2 = 0..ALen(args.nsample_ratios)
            /\ DOMAIN res.values1 = 0..ALen(args.nsample_ratios)
            /\ DOMAIN res.values2 = 0..ALen(args.nsample_ratios)

\* C14: ModelEnsemble.__call__ returns at row k the output of the function
\* that the model id of sample k selects, evaluated at sample k; and with a
\* batched callable the MLMC and the MFMC scheme return as V1 and V2 of model
\* i the outputs of model i at the samples of S1 and of S2 of model i, in the
\* order of the samples.
C14_BatchedEvaluationKeepsOrder ==
    /\ (op = "ModelEnsemble.__call__" /\ res.status = "ok") =>
           \A k \in DOMAIN args.samples :
               args.samples[k][2] \in 0..(args.nmodels - 1) =>
                   res.values[k] = <<args.samples[k][2], args.samples[k][1]>>
    /\ (/\ op \in {"generate_samples_and_values_mlmc",
                    "generate_samples_and_values_mfmc"}
        /\ args.functions = "callable"
        /\ res.status = "ok") =>
           /\ res.values1[0] = Evaluate(0, res.samples1[0])
           /\ \A ii \in 1..ALen(args.nsample_ratios) :
               /\ res.values1[ii] = Evaluate(ii, res.samples1[ii])
               /\ res.values2[ii] = Evaluate(ii, res.samples2[ii])

\* C15: generate_samples_and_values_mlmc and generate_samples_and_values_mfmc
\* fail, and return neither samples nor values, whenever some r[i]*Nhf is not
\* an integer.
C15_NonIntegralSizeFails ==
    (/\ op \in {"generate_samples_and_values_mlmc",
                "generate_samples_and_values_mfmc"}
     /\ \E i \in DOMAIN args.nsample_ratios :
            Mul(args.nsample_ratios[i], args.nhf_samples)[2] # 1) =>
        /\ res.status = "error"
        /\ DOMAIN res \cap {"samples1", "samples2", "values1", "values2"} = {}

\* the MFMC scheme asked for 3/2 times 3 samples, the ratios at least one
C15_Witness ==
    /\ op = "generate_samples_and_values_mfmc"
    /\ args.nhf_samples = R(3)
    /\ args.nsample_ratios = Arr(<<R(2), Q(3, 2)>>)
    /\ res.status = "error"
    /\ res.msg = "AssertionError"

\* weights[i]*(mean(V1 of model i+1) - mean(V2 of model i+1)) of the arguments
WeightedDifference(i) ==
    Mul(args.weights[i], Sub(Mean(args.values[i + 1][1]),
                             Mean(args.values[i + 1][2])))

\* C16: compute_control_variate_mean_estimate returns the mean of V1 of
\* model 0 plus, for every low-fidelity model i+1, weights[i] times the
\* difference of the means of its V1 and its V2, each model's pair entering
\* once; V2 of model 0, which is None, is never read.
C16_MeanEstimateFormula ==
    (/\ op = "compute_control_variate_mean_estimate"
     /\ ALen(args.weights) >= ALen(args.values) - 1) =>
        /\ args.values[0][2] = "None"
        /\ res.status = "ok"
        /\ ALen(args.values) = 1 => res.est = Mean(args.values[0][1])
        /\ ALen(args.values) = 2 =>
               res.est = Add(Mean(args.values[0][1]), WeightedDifference(0))
        /\ ALen(args.values) = 3 =>
               res.est = Add(WeightedDifference(1),
                             Add(WeightedDifference(0),
                                 Mean(args.values[0][1])))

\* three models: 1 - (3/2 - 2) + 2*(2 - 1) = 7/2
C16_Witness ==
    /\ op = "compute_control_variate_mean_estimate"
    /\ args.weights = Arr(<<R(-1), R(2)>>)
    /\ args.values = Arr(<<<<Arr(<<R(1)>>), "None">>,
                           <<Arr(<<R(1), R(2)>>), Arr(<<R(0), R(3), R(3)>>)>>,
                           <<Arr(<<R(0), R(3), R(3)>>), Arr(<<R(1)>>)>>>>)
    /\ res.status = "ok"
    /\ res.est = Q(7, 2)

\* |corr(0,i)| > |corr(0,i+1)| for every low-fidelity model i but the last,
\* compared as cov[0,i]^2/cov[i,i]
OrderedByCorrelation(cov) ==
    \A i \in 1..(ALen(cov) - 2) :
        Lt(Div(Mul(cov[0][i + 1], cov[0][i + 1]), cov[i + 1][i + 1]),
           Div(Mul(cov[0][i], cov[0][i]), cov[i][i]))

\* C17: allocate_samples_mfmc raises exactly when the low-fidelity models are
\* not in the order of strictly decreasing absolute correlation with model
\* 0, and returns an allocation when they are.
C17_MfmcFailsExactlyWhenUnordered ==
    op = "allocate_samples_mfmc" =>
        /\ res.status = "error" <=> ~OrderedByCorrelation(args.cov)
        /\ res.status = "ok" => IsAllocation

\* the discrepancy covariance function of an ACV2 or ACV2KL estimator
StrategyOf(estimator) ==
    IF estimator.kind = "ACV2" THEN StrategyMF
    ELSE StrategyKL(estimator.K - 1, estimator.L - 1)

\* CF of the strategy at cov and the ratios has determinant zero
SingularCF(strategy, cov, nsample_ratios) ==
    Det(ApplyGetDiscrepancyCovariances(strategy, cov, nsample_ratios).CF)
        = R(0)

\* where CF is singular, variance_reduction of an ACV2 or ACV2KL estimator
\* does not raise and returns zero
C18_SingularCFGivesZero ==
    (/\ op = "variance_reduction"
     /\ args.estimator.kind \in {"ACV2", "ACV2KL"}
     /\ SingularCF(StrategyOf(args.estimator), args.cov,
                   args.nsample_ratios)) =>
        /\ res.status = "ok"
        /\ res.gamma = R(0)

\* C18: where CF is singular, variance_reduction of an ACV2 or ACV2KL
\* estimator does not raise: get_rsquared_acv returns an r^2 of zero, and
\* variance_reduction returns 1 - 0 = 1, the variance of plain Monte Carlo
\* (no improvement).
C18_SingularCFGivesNoReduction ==
    (/\ op = "variance_reduction"
     /\ args.estimator.kind \in {"ACV2", "ACV2KL"}
     /\ SingularCF(StrategyOf(args.estimator), args.cov,
                   args.nsample_ratios)) =>
        /\ res.status = "ok"
        /\ res.gamma = R(1)

\* three models, the first ratio 1: the first row of CF is zero
C18_Witness ==
    /\ op = "variance_reduction"
    /\ args.estimator = ACV2
    /\ args.cov = CovTest
    /\ args.nsample_ratios = Arr(<<R(1), R(2)>>)
    /\ res.gamma = R(1)

\* C19: outside the optimizer's search a singular CF is fatal:
\* get_approximate_control_variate_weights, get_rsquared_acv on a numpy
\* covariance, and allocate_samples_acv, when CF is singular at the rounded
\* allocation it evaluates last, raise an error.
C19_SingularCFFatalOutsideSearch ==
    /\ (/\ op \in {"get_approximate_control_variate_weights",
                    "get_rsquared_acv"}
        /\ SingularCF(args.get_discrepancy_covariances, args.cov,
                      args.nsample_ratios)) =>
           res.status = "error"
    /\ (/\ op = "allocate_samples_acv"
        /\ args.estimator.kind \in {"ACV2", "ACV2KL"}
        /\ res.status = "ok") =>
           ~SingularCF(StrategyOf(args.estimator), args.cov,
                       res.nsample_ratios)

\* C20: allocate_samples_mlmc returns no NaN log10 variance: where the
\* variance of the rounded allocation is NaN, as it is when the variance of
\* a discrepancy is negative, the call raises 'MLMC variance is NAN'.
C20_MlmcNaNVarianceRaises ==
    op = "allocate_samples_mlmc" =>
        /\ res.status = "ok" => ~LogIsNaN(res.log10_variance)
        /\ res.status = "error" => res.msg = "MLMC variance is NAN"
        /\ (\E ii \in 0..(ALen(args.cov) - 2) :
                Lt(VarDelta(args.cov, ii), R(0))) => res.status = "error"

\* the discrepancy of the two models has the variance 1 + 1 - 4
C20_Witness ==
    /\ op = "allocate_samples_mlmc"
    /\ args.cov = CovIndefinite
    /\ res.status = "error"
    /\ res.msg = "MLMC variance is NAN"

\* 1 < a[0] < a[1] < ...
StrictlyIncreasingAboveOne(a) ==
    \A i \in DOMAIN a : Lt(IF i = 0 THEN R(1) ELSE a[i - 1], a[i])

\* N_k: nhf for k = 0 and r[k-1]*nhf for k >= 1
NsamplesPerModel(nhf, r, k) == IF k = 0 THEN nhf ELSE Mul(r[k - 1], nhf)

\* (1/N_(k-1) - 1/N_k) * (eta_k^2*cov[k,k] + 2*eta_k*cov[0,k])
MfmcVarianceTerm(cov, nhf, r, eta, k) ==
    Mul(Sub(Div(R(1), NsamplesPerModel(nhf, r, k - 1)),
            Div(R(1), NsamplesPerModel(nhf, r, k))),
        Add(Mul(Mul(eta[k - 1], eta[k - 1]), cov[k][k]),
            Mul(Mul(R(2), eta[k - 1]), cov[0][k])))

\* the variance of the MFMC estimator with nhf high-fidelity samples
MfmcVariance(cov, nhf, r, eta) ==
    Add(Div(cov[0][0], nhf),
        Sum(Array([j \in DOMAIN r |->
                MfmcVarianceTerm(cov, nhf, r, eta, j + 1)])))

\* C21: for ratios 1 < r[0] < r[1] < ..., 1 - get_rsquared_mfmc(cov, r) is
\* Nhf/cov[0,0] times the variance of the MFMC estimator taken with the
\* weights get_mfmc_control_variate_weights(cov), whatever Nhf is.
C21_MfmcRsquaredIsEstimatorVariance ==
    (/\ op = "variance_reduction"
     /\ args.estimator = MFMC
     /\ StrictlyIncreasingAboveOne(args.nsample_ratios)) =>
        \A nhf \in {R(1), R(10)} :
            res.gamma =
                Mul(Div(nhf, args.cov[0][0]),
                    MfmcVariance(args.cov, nhf, args.nsample_ratios,
                                 GetMfmcControlVariateWeights(args.cov)))

\* three models, the ratios 2 and 3
C21_Witness ==
    /\ op = "variance_reduction"
    /\ args.estimator = MFMC
    /\ args.cov = CovTest
    /\ args.nsample_ratios = Arr(<<R(2), R(3)>>)
    /\ res.status = "ok"
    /\ Lt(res.gamma, R(1))

\* the argument cov is symmetric
SymmetricCov == \A i \in DOMAIN args.cov : \A j \in DOMAIN args.cov :
                    args.cov[i][j] = args.cov[j][i]

\* C22: get_discrepancy_covariances_IS, _MF and _KL (any K, L) return a
\* symmetric CF for every symmetric cov and every ratios vector.
C22_CFSymmetric ==
    (op = "get_discrepancy_covariances" /\ SymmetricCov) =>
        \A i \in DOMAIN res.CF : \A j \in DOMAIN res.CF :
            res.CF[i][j] = res.CF[j][i]

\* the IS strategy on three models: the two off-diagonal entries of CF are
\* 1/2 * 1/2 * 2/3
C22_Witness ==
    /\ op = "get_discrepancy_covariances"
    /\ args.get_discrepancy_covariances = StrategyIS
    /\ args.cov = CovTest
    /\ args.nsample_ratios = Arr(<<R(2), R(3)>>)
    /\ res.CF[0][1] = Q(1, 6)
    /\ res.CF[1][0] = Q(1, 6)

\* M[i][j]*M[k][l] - M[i][l]*M[k][j]
Minor2(M, i, j, k, l) == Sub(Mul(M[i][j], M[k][l]), Mul(M[i][l], M[k][j]))

\* the determinant of the leading n x n block of M, n <= 3
LeadingMinor(M, n) ==
    IF n = 1 THEN M[0][0]
    ELSE IF n = 2 THEN Minor2(M, 0, 0, 1, 1)
    ELSE Add(Sub(Mul(M[0][0], Minor2(M, 1, 1, 2, 2)),
                 Mul(M[0][1], Minor2(M, 1, 0, 2, 2))),
             Mul(M[0][2], Minor2(M, 1, 0, 2, 1)))

\* a symmetric matrix of at most 3 rows is positive definite: its leading
\* minors, and with them its diagonal entries, are positive
PositiveDefinite(M) ==
    /\ \A n \in 1..ALen(M) : Lt(R(0), LeadingMinor(M, n))
    /\ \A i \in DOMAIN M : Lt(R(0), M[i][i])

\* every ratio of the arguments is above 1
RatiosAboveOne == \A i \in DOMAIN args.nsample_ratios :
                      Lt(R(1), args.nsample_ratios[i])

Lambda ==
    Div(args.target_cost,
        Sum(Array([i \in DOMAIN args.cov |->
                Sqrt(VarTimesCost(args.cov, args.costs, i))])))

\* n_i = lambda*sqrt(Var(delta_i)/cost_i)
DiscrepancySamples(i) ==
    Mul(Lambda, Sqrt(VarOverCost(args.cov, args.costs, i)))

\* C24: without rounding allocate_samples_mlmc returns Nhf = n_0 and
\* r[i-1] = (n_(i-1) + n_i)/n_0 for n_i = lambda*sqrt(Var(delta_i)/cost_i),
\* with lambda such that the allocation costs target_cost; for the cov of the
\* test, costs [6,3,1] and target_cost 81 the variance is 1 and the models
\* get 3, 12 and 27 samples.
C24_MlmcContinuousAllocation ==
    (/\ op = "allocate_samples_mlmc"
     /\ ~args.standardize
     /\ res.status = "ok") =>
        /\ res.nhf_samples = DiscrepancySamples(0)
        /\ \A i \in 1..(ALen(args.cov) - 1) :
               res.nsample_ratios[i - 1] =
                   Div(Add(DiscrepancySamples(i - 1), DiscrepancySamples(i)),
                       DiscrepancySamples(0))
        /\ AllocationCost(args.costs, res.nhf_samples, res.nsample_ratios)
               = args.target_cost
        /\ (/\ args.cov = CovTest
            /\ args.costs = Arr(<<R(6), R(3), R(1)>>)
            /\ args.target_cost = R(81)) =>
               /\ res.nhf_samples = R(3)
               /\ res.nsample_ratios = Arr(<<R(4), R(9)>>)
               /\ Pow10(res.log10_variance) = R(1)

\* the example of the test
C24_Witness ==
    /\ op = "allocate_samples_mlmc"
    /\ ~args.standardize
    /\ args.cov = CovTest
    /\ args.costs = Arr(<<R(6), R(3), R(1)>>)
    /\ args.target_cost = R(81)
    /\ res.status = "ok"
    /\ Mul(res.nsample_ratios[0], res.nhf_samples) = R(12)
    /\ Mul(res.nsample_ratios[1], res.nhf_samples) = R(27)

\* the derivative of ln(variance_reduction(r)*cov[0,0]/nhf) along s times
\* component k of x: -s/nhf for nhf, and for a ratio the derivative of the
\* variance reduction along the direction over the variance reduction
LogDerivativeOf(gamma, k, s) ==
    IF k = 0 THEN Neg(Div(R(s), args.x[0])) ELSE Div(gamma.d, gamma.v)

LogDerivative(k, s) ==
    LogDerivativeOf(DVarianceReduction(args.estimator, args.cov,
                        Tail0(Seeded(args.x, k, s)), "least"), k, s)

\* the objective has a gradient at x, and grad is that gradient: along every
\* component the derivatives from the right and from the left are grad[k]
IsExactGradient(grad) ==
    \A k \in DOMAIN args.x :
        /\ grad[k] = LogDerivative(k, 1)
        /\ grad[k] = Neg(LogDerivative(k, -1))

\* the covariance of the discrepancies of the estimator at x
EstimatorCF ==
    IF args.estimator.kind = "ACV2"
    THEN GetDiscrepancyCovariancesMF(args.cov, Tail0(args.x)).CF
    ELSE GetDiscrepancyCovariancesKL(args.cov, Tail0(args.x),
             args.estimator.K - 1, args.estimator.L - 1).CF

\* the objective is a finite number given by the variance reduction formula:
\* the variance is positive and finite and, for ACV2 and ACV2KL, the
\* covariance of the discrepancies is invertible
ObjectiveDefined ==
    /\ IsFinite(Pow10(res.objective))
    /\ Lt(R(0), Pow10(res.objective))
    /\ args.estimator.kind \in {"ACV2", "ACV2KL"} =>
           Det(EstimatorCF) # R(0)

DistinctRatios ==
    \A i, j \in 1..(ALen(args.x) - 1) : i # j => args.x[i] # args.x[j]

\* objective(x) = log10(variance_reduction(r)*cov[0,0]/Nhf)
ObjectiveIsLogVariance ==
    res.objective =
        Log10(Div(Mul(VarianceReduction(args.estimator, args.cov,
                          Tail0(args.x)),
                      args.cov[0][0]),
                  args.x[0]))

IsCall ==
    /\ op = "get_discrepancy_covariances"
    /\ args.get_discrepancy_covariances = StrategyIS

\* (r_i - 1)/r_i of low-fidelity model i+1
SampleFraction(i) ==
    Div(Sub(args.nsample_ratios[i], R(1)), args.nsample_ratios[i])

\* cov[i+1,j+1]*(r_i-1)/r_i*(r_j-1)/r_j
ProductEntry(i, j) ==
    Mul(args.cov[i + 1][j + 1], Mul(SampleFraction(i), SampleFraction(j)))

\* cf[i] = F[i,i]*cov[i+1,0] for the F with CF = cov[1:,1:]*F
CfFromDiagonal ==
    \A i \in DOMAIN res.cf :
        res.cf[i] = Mul(Div(res.CF[i][i], args.cov[i + 1][i + 1]),
                        args.cov[i + 1][0])

\* C26 as stated: every entry of CF, the diagonal included, is
\* cov[i+1,j+1]*(r_i-1)/r_i*(r_j-1)/r_j, and cf[i] = F[i,i]*cov[i+1,0].
C26_ISProductOnDiagonal ==
    IsCall =>
        /\ \A i, j \in DOMAIN res.CF : res.CF[i][j] = ProductEntry(i, j)
        /\ CfFromDiagonal

\* C26: get_discrepancy_covariances_IS returns
\* CF[i,j] = cov[i+1,j+1]*(r_i-1)/r_i*(r_j-1)/r_j for i # j,
\* CF[i,i] = cov[i+1,i+1]*(r_i-1)/r_i, and cf[i] = F[i,i]*cov[i+1,0].
C26_ISProductOffDiagonal ==
    IsCall =>
        /\ \A i, j \in DOMAIN res.CF :
               res.CF[i][j] = IF i = j
                              THEN Mul(args.cov[i + 1][i + 1],
                                       SampleFraction(i))
                              ELSE ProductEntry(i, j)
        /\ CfFromDiagonal

\* three models with different ratios above 1
C26_Witness ==
    /\ IsCall
    /\ ALen(args.nsample_ratios) = 2
    /\ Lt(R(1), args.nsample_ratios[0])
    /\ Lt(args.nsample_ratios[0], args.nsample_ratios[1])
    /\ res.CF[0][1] = ProductEntry(0, 1)
    /\ res.CF[0][1] # R(0)
    /\ res.CF[0][0] # ProductEntry(0, 0)

\* get_discrepancy_covariances_KL has returned CF and cf
KlCall ==
    /\ op = "get_discrepancy_covariances"
    /\ args.get_discrepancy_covariances.kind = "KL"

\* cov[i+1,j+1]*(min(r_i,r_j)-1)/min(r_i,r_j)
MinEntry(i, j) ==
    Mul(args.cov[i + 1][j + 1],
        Div(Sub(MinR(args.nsample_ratios[i], args.nsample_ratios[j]), R(1)),
            MinR(args.nsample_ratios[i], args.nsample_ratios[j])))

\* what get_discrepancy_covariances_MF returns for the same cov and ratios
SameAsMF(i, j) ==
    /\ res.CF[i][j] =
           GetDiscrepancyCovariancesMF(args.cov, args.nsample_ratios).CF[i][j]
    /\ res.cf[i] =
           GetDiscrepancyCovariancesMF(args.cov, args.nsample_ratios).cf[i]

\* C27: for i, j <= K get_discrepancy_covariances_KL returns the CF[i,j] and
\* cf[i] of get_discrepancy_covariances_MF,
\* cov[i+1,j+1]*(min(r_i,r_j)-1)/min(r_i,r_j); an ACV2KL estimator built with
\* K = nmodels-1 has, for every L and all ratios, the variance reduction of
\* the ACV2 estimator.
C27_KLIsMFUpToK ==
    /\ KlCall =>
           \A i, j \in DOMAIN res.CF :
               (i <= args.get_discrepancy_covariances.K
                /\ j <= args.get_discrepancy_covariances.K) =>
                   /\ res.CF[i][j] = MinEntry(i, j)
                   /\ SameAsMF(i, j)
    /\ (/\ op = "variance_reduction"
        /\ args.estimator.kind = "ACV2KL"
        /\ args.estimator.K = ALen(args.cov) - 1) =>
           res.gamma = VarianceReduction(ACV2, args.cov, args.nsample_ratios)

\* three models, K = 2 and L = 1, with correlated discrepancies and a
\* variance reduction below 1
C27_Witness ==
    /\ op = "variance_reduction"
    /\ args.estimator = ACV2KL(2, 1)
    /\ ALen(args.cov) = 3
    /\ Lt(args.nsample_ratios[0], args.nsample_ratios[1])
    /\ Lt(res.gamma, R(1))
    /\ res.gamma = VarianceReduction(ACV2, args.cov, args.nsample_ratios)
    /\ GetDiscrepancyCovariancesMF(args.cov, args.nsample_ratios).CF[0][1]
           # R(0)

\* C28: for all ratios that pass the checks of
\* generate_samples_and_values_mfmc, non-decreasing or not, V1 of every
\* low-fidelity model has one value per sample of its S1, the model evaluated
\* at that sample, and the list of callables and the batched callable return
\* the same values.
C28_MfmcValuesMatchSamples ==
    (op = "generate_samples_and_values_mfmc" /\ res.status = "ok") =>
        /\ \A ii \in 1..ALen(args.nsample_ratios) :
               /\ Len(res.values1[ii]) = Len(res.samples1[ii])
               /\ res.values1[ii] = Evaluate(ii, res.samples1[ii])
        /\ GenerateSamplesAndValuesMfmcWith("list", args.nhf_samples,
                                            args.nsample_ratios).values1
             = GenerateSamplesAndValuesMfmcWith("callable", args.nhf_samples,
                                                args.nsample_ratios).values1
        /\ GenerateSamplesAndValuesMfmcWith("list", args.nhf_samples,
                                            args.nsample_ratios).values2
             = GenerateSamplesAndValuesMfmcWith("callable", args.nhf_samples,
                                                args.nsample_ratios).values2

\* the checks of generate_samples_and_values_mlmc: nhf_samples is a sample
\* count, every ratio is at least 1 and every r[i]*nhf_samples is an integer
MlmcChecksPass ==
    /\ IsInt(args.nhf_samples)
    /\ \A i \in DOMAIN args.nsample_ratios :
           /\ Leq(R(1), args.nsample_ratios[i])
           /\ IsInt(Mul(args.nsample_ratios[i], args.nhf_samples))

\* C29: for all ratios that pass the checks of
\* generate_samples_and_values_mlmc, generate_samples is asked at every level
\* for r[i]*nhf_samples - |S1| >= 0 samples.
C29_MlmcFreshCountNonNegative ==
    (op = "generate_samples_and_values_mlmc" /\ MlmcChecksPass) =>
        /\ res.status = "ok"
        /\ \A ii \in DOMAIN args.nsample_ratios :
               /\ res.generated[ii + 2] >= 0
               /\ res.generated[ii + 2] =
                      Mul(args.nsample_ratios[ii], args.nhf_samples)[1]
                      - Len(res.samples1[ii + 1])

\* C30: for every batch that passes the check of ModelEnsemble.__call__
\* (largest id below nmodels), negative ids and batches without the id 0
\* included, the id of every sample selects a function and the row of the
\* sample is the output of that function at the sample: no row is left as
\* np.empty returned it.
C30_EveryRowWritten ==
    (op = "ModelEnsemble.__call__"
     /\ \A k \in DOMAIN args.samples : args.samples[k][2] < args.nmodels) =>
        \A k \in DOMAIN args.samples :
            /\ args.samples[k][2] \in 0..(args.nmodels - 1)
            /\ res.status = "ok"
            /\ res.values[k] = <<args.samples[k][2], args.samples[k][1]>>
=============================================================================
